---- MODULE Spec2Model ----
(***************************************************************************)
(* State-machine model of the persistence layer of the EtherFi anomaly     *)
(* monitor: the domain repositories (database/queries.js over schema.sql), *)
(* the transaction runner (database/db-connection.js) and the retry        *)
(* policy (utils/error-handler.js).                                        *)
(*                                                                         *)
(* Conventions.  A JavaScript undefined/null and an SQL NULL are written   *)
(* Null (numeric columns) or NullStr (text columns); supplied numbers are  *)
(* drawn from 1..MaxVal, so that Null is also the only falsy number.       *)
(* Timestamps are integers on the clock `now`.                             *)
(***************************************************************************)
EXTENDS Integers, Sequences, FiniteSets, TLC

\* ------------------------------------------------------------------ bounds
MaxTime == 2
MaxVal == 2
MaxCalls == 3

Null == 0
NullStr == "null"

Times == 1..MaxTime
Vals == 1..MaxVal
Addresses == {"0xA", "0xB"}
TweetIds == {"t1", "t2"}

VARIABLES
  now,                \* the server clock, NOW() / new Date()
  calls,              \* repository calls made so far
  time_series_data,   \* table: set of rows
  whale_wallets,      \* table: set of rows
  twitter_sentiment,  \* table: set of rows
  ts_seq,             \* time_series_data_id_seq (SERIAL)
  whale_seq,          \* whale_wallets_id_seq
  tw_seq,             \* twitter_sentiment_id_seq
  \* History variables: per key, the first and the latest successful call
  \* (<<>>, <<first>> or <<first, latest>>), each with the values it bound
  \* and the SERIAL value it drew.
  tsHist,             \* per timestamp, the insertTimeSeriesData calls
  whHist,             \* per address, the upsertWhaleWallet calls (and their NOW())
  twHist              \* per tweet_id, the insertTwitterSentiment calls

repoVars == <<now, calls, time_series_data, whale_wallets, twitter_sentiment,
              ts_seq, whale_seq, tw_seq, tsHist, whHist, twHist>>

\* A key's history after one more successful call.
Record(hist, call) == IF hist = <<>> THEN <<call>> ELSE <<hist[1], call>>

\* JavaScript's  a || b  on the values of this model: Null and NullStr are falsy.
JsOr(a, b) == IF a = Null THEN b ELSE a
JsOrStr(a, b) == IF a = NullStr THEN b ELSE a

\* ---------------------------------------------------------- time_series_data

\* The caller's `data` objects: T = Null leaves data.timestamp out, opt says
\* whether the optional metadata (data_source, collection_status,
\* error_message) is supplied.
TsData(T, p, opt) ==
  [timestamp |-> T, tvl_usd |-> p, tvl_eth |-> p, tvl_change_percent |-> p,
   unique_stakers |-> p, new_stakers_24h |-> p,
   deposit_count_24h |-> p, withdrawal_count_24h |-> p,
   total_volume_eth_24h |-> p, avg_transaction_size_eth |-> p,
   withdrawal_queue_size |-> p, withdrawal_queue_eth |-> p,
   avg_withdrawal_wait_time_hours |-> p,
   eeth_eth_price_ratio |-> p, peg_deviation_percent |-> p,
   avg_gas_price_gwei |-> p, median_gas_price_gwei |-> p,
   total_validators |-> p, active_validators |-> p,
   data_source |-> IF opt THEN "api" ELSE NullStr,
   collection_status |-> IF opt THEN "partial" ELSE NullStr,
   error_message |-> IF opt THEN "msg" ELSE NullStr]

\* The bound parameters $1..$22.
TsValues(data, clock) ==
  [data EXCEPT !.timestamp = JsOr(data.timestamp, clock),
               !.data_source = JsOrStr(data.data_source, "blockchain"),
               !.collection_status = JsOrStr(data.collection_status, "success"),
               !.error_message = JsOrStr(data.error_message, NullStr)]

\* The row INSERT proposes (EXCLUDED): the values plus the SERIAL id.
TsRow(values, id) ==
  [id |-> id, timestamp |-> values.timestamp,
   tvl_usd |-> values.tvl_usd, tvl_eth |-> values.tvl_eth,
   tvl_change_percent |-> values.tvl_change_percent,
   unique_stakers |-> values.unique_stakers, new_stakers_24h |-> values.new_stakers_24h,
   deposit_count_24h |-> values.deposit_count_24h,
   withdrawal_count_24h |-> values.withdrawal_count_24h,
   total_volume_eth_24h |-> values.total_volume_eth_24h,
   avg_transaction_size_eth |-> values.avg_transaction_size_eth,
   withdrawal_queue_size |-> values.withdrawal_queue_size,
   withdrawal_queue_eth |-> values.withdrawal_queue_eth,
   avg_withdrawal_wait_time_hours |-> values.avg_withdrawal_wait_time_hours,
   eeth_eth_price_ratio |-> values.eeth_eth_price_ratio,
   peg_deviation_percent |-> values.peg_deviation_percent,
   avg_gas_price_gwei |-> values.avg_gas_price_gwei,
   median_gas_price_gwei |-> values.median_gas_price_gwei,
   total_validators |-> values.total_validators,
   active_validators |-> values.active_validators,
   data_source |-> values.data_source,
   collection_status |-> values.collection_status,
   error_message |-> values.error_message]

\* A mutant of TsConflictUpdate: the conflict branch overwrites the whole row.
TsConflictUpdateAll(row, excluded) == [excluded EXCEPT !.id = row.id]

\* ON CONFLICT (timestamp) DO UPDATE SET ...
TsConflictUpdate(row, excluded) ==
  [row EXCEPT !.tvl_usd = excluded.tvl_usd,
              !.tvl_eth = excluded.tvl_eth,
              !.unique_stakers = excluded.unique_stakers,
              !.collection_status = excluded.collection_status]

\* The INSERT ... ON CONFLICT statement on the table, under unique_timestamp.
TsUpsert(table, excluded) ==
  IF \E r \in table : r.timestamp = excluded.timestamp
  THEN {IF r.timestamp = excluded.timestamp THEN TsConflictUpdate(r, excluded) ELSE r : r \in table}
  ELSE table \cup {excluded}

insertTimeSeriesData(data, ok) ==
  /\ calls < MaxCalls
  /\ calls' = calls + 1
  /\ LET values == TsValues(data, now) IN
     IF ok
     THEN /\ time_series_data' = TsUpsert(time_series_data, TsRow(values, ts_seq))
          /\ ts_seq' = ts_seq + 1
          /\ tsHist' = [tsHist EXCEPT ![values.timestamp] =
                        Record(@, [values |-> values, id |-> ts_seq])]
     ELSE \* query() rejects: the statement had no effect
          UNCHANGED <<time_series_data, ts_seq, tsHist>>
  /\ UNCHANGED <<now, whale_wallets, twitter_sentiment, whale_seq, tw_seq, whHist, twHist>>

\* -------------------------------------------------------------- whale_wallets

\* The caller's `data` objects: a = NullStr leaves data.address out, opt says
\* whether the optional fields (counters, label, flags) are supplied.
WhData(a, p, opt) ==
  [address |-> a, current_balance_eeth |-> p, current_balance_usd |-> p,
   balance_24h_ago |-> p, balance_7d_ago |-> p, balance_30d_ago |-> p,
   change_24h_eeth |-> p, change_24h_percent |-> p,
   change_7d_eeth |-> p, change_7d_percent |-> p,
   total_deposits |-> IF opt THEN p ELSE Null,
   total_withdrawals |-> IF opt THEN p ELSE Null,
   last_transaction_hash |-> p, last_transaction_time |-> p,
   rank_position |-> p,
   label |-> IF opt THEN "fund" ELSE NullStr,
   is_contract |-> opt, is_exchange |-> opt]

\* The bound parameters $1..$18 (undefined || false is false).
WhValues(data) ==
  [data EXCEPT !.total_deposits = JsOr(data.total_deposits, 0),
               !.total_withdrawals = JsOr(data.total_withdrawals, 0)]

\* The row INSERT proposes: first_seen takes its DEFAULT NOW(), last_updated
\* the statement's NOW().
WhRow(values, id, clock) ==
  [id |-> id, address |-> values.address,
   first_seen |-> clock, last_updated |-> clock,
   current_balance_eeth |-> values.current_balance_eeth,
   current_balance_usd |-> values.current_balance_usd,
   balance_24h_ago |-> values.balance_24h_ago,
   balance_7d_ago |-> values.balance_7d_ago,
   balance_30d_ago |-> values.balance_30d_ago,
   change_24h_eeth |-> values.change_24h_eeth,
   change_24h_percent |-> values.change_24h_percent,
   change_7d_eeth |-> values.change_7d_eeth,
   change_7d_percent |-> values.change_7d_percent,
   total_deposits |-> values.total_deposits,
   total_withdrawals |-> values.total_withdrawals,
   last_transaction_hash |-> values.last_transaction_hash,
   last_transaction_time |-> values.last_transaction_time,
   rank_position |-> values.rank_position,
   label |-> values.label,
   is_contract |-> values.is_contract, is_exchange |-> values.is_exchange]

\* A mutant of WhConflictUpdate: the conflict branch forgets rank_position
\* and last_updated.
WhConflictUpdateNoRank(row, excluded, clock) ==
  [row EXCEPT !.current_balance_eeth = excluded.current_balance_eeth,
              !.current_balance_usd = excluded.current_balance_usd,
              !.change_24h_eeth = excluded.change_24h_eeth,
              !.change_24h_percent = excluded.change_24h_percent]

\* A mutant of WhConflictUpdate: the conflict branch rewrites every column
\* but id and first_seen.
WhConflictUpdateWholeRow(row, excluded, clock) ==
  [excluded EXCEPT !.id = row.id, !.first_seen = row.first_seen, !.last_updated = clock]

\* ON CONFLICT (address) DO UPDATE SET ...
WhConflictUpdate(row, excluded, clock) ==
  [row EXCEPT !.current_balance_eeth = excluded.current_balance_eeth,
              !.current_balance_usd = excluded.current_balance_usd,
              !.change_24h_eeth = excluded.change_24h_eeth,
              !.change_24h_percent = excluded.change_24h_percent,
              !.rank_position = excluded.rank_position,
              !.last_updated = clock]

\* The INSERT ... ON CONFLICT statement on the table, under unique_address.
WhUpsert(table, excluded, clock) ==
  IF \E r \in table : r.address = excluded.address
  THEN {IF r.address = excluded.address THEN WhConflictUpdate(r, excluded, clock) ELSE r : r \in table}
  ELSE table \cup {excluded}

upsertWhaleWallet(data, ok) ==
  /\ calls < MaxCalls
  /\ calls' = calls + 1
  /\ LET values == WhValues(data) IN
     \* address is NOT NULL: without it the statement fails and query() rejects
     IF ok /\ values.address # NullStr
     THEN /\ whale_wallets' = WhUpsert(whale_wallets, WhRow(values, whale_seq, now), now)
          /\ whale_seq' = whale_seq + 1
          /\ whHist' = [whHist EXCEPT ![values.address] =
                        Record(@, [values |-> values, at |-> now, id |-> whale_seq])]
     ELSE UNCHANGED <<whale_wallets, whale_seq, whHist>>
  /\ UNCHANGED <<now, time_series_data, twitter_sentiment, ts_seq, tw_seq, tsHist, twHist>>

\* ---------------------------------------------------------- twitter_sentiment

\* The caller's `data` objects: t = NullStr leaves data.tweet_id out; a full
\* object supplies timestamp (T, the time the sample was taken), keywords and
\* is_influential, a minimal one (T = Null) none of the three.
TwData(t, T, p) ==
  [tweet_id |-> t, tweet_text |-> p, author_username |-> p, author_followers |-> p,
   sentiment_score |-> p, sentiment_label |-> p, confidence |-> p,
   retweet_count |-> p, like_count |-> p, reply_count |-> p,
   keywords |-> IF T # Null THEN <<"etherfi">> ELSE <<>>,
   is_influential |-> T # Null,
   timestamp |-> T]

\* The bound parameters $1..$13.
TwValues(data, clock) == [data EXCEPT !.timestamp = JsOr(data.timestamp, clock)]

TwRow(values, id) ==
  [id |-> id, timestamp |-> values.timestamp,
   tweet_id |-> values.tweet_id, tweet_text |-> values.tweet_text,
   author_username |-> values.author_username,
   author_followers |-> values.author_followers,
   sentiment_score |-> values.sentiment_score,
   sentiment_label |-> values.sentiment_label,
   confidence |-> values.confidence,
   retweet_count |-> values.retweet_count,
   like_count |-> values.like_count,
   reply_count |-> values.reply_count,
   keywords |-> values.keywords, is_influential |-> values.is_influential]

\* A mutant of TwConflictUpdate: the conflict branch also refreshes the score.
TwConflictUpdateScore(row, excluded) ==
  [row EXCEPT !.retweet_count = excluded.retweet_count,
              !.like_count = excluded.like_count,
              !.reply_count = excluded.reply_count,
              !.sentiment_score = excluded.sentiment_score]

\* ON CONFLICT (tweet_id) DO UPDATE SET ...
TwConflictUpdate(row, excluded) ==
  [row EXCEPT !.retweet_count = excluded.retweet_count,
              !.like_count = excluded.like_count,
              !.reply_count = excluded.reply_count]

\* The INSERT ... ON CONFLICT statement on the table, under unique_tweet: a
\* NULL tweet_id conflicts with no row (NULLs are distinct in a UNIQUE
\* constraint).
TwUpsert(table, excluded) ==
  IF excluded.tweet_id # NullStr /\ \E r \in table : r.tweet_id = excluded.tweet_id
  THEN {IF r.tweet_id = excluded.tweet_id THEN TwConflictUpdate(r, excluded) ELSE r : r \in table}
  ELSE table \cup {excluded}

insertTwitterSentiment(data, ok) ==
  /\ calls < MaxCalls
  /\ calls' = calls + 1
  /\ LET values == TwValues(data, now) IN
     IF ok
     THEN /\ twitter_sentiment' = TwUpsert(twitter_sentiment, TwRow(values, tw_seq))
          /\ tw_seq' = tw_seq + 1
          /\ twHist' = IF values.tweet_id = NullStr THEN twHist
                       ELSE [twHist EXCEPT ![values.tweet_id] =
                              Record(@, [values |-> values, id |-> tw_seq])]
     ELSE UNCHANGED <<twitter_sentiment, tw_seq, twHist>>
  /\ UNCHANGED <<now, time_series_data, whale_wallets, ts_seq, whale_seq, tsHist, whHist>>

\* ------------------------------------------------------------- the clock
Tick ==
  /\ now < MaxTime
  /\ now' = now + 1
  /\ UNCHANGED <<calls, time_series_data, whale_wallets, twitter_sentiment,
                 ts_seq, whale_seq, tw_seq, tsHist, whHist, twHist>>

\* schema.sql ends by inserting one placeholder row stamped NOW(): the time the
\* schema was created, before the clock values callers use.
SchemaTime == -1

InitialPlaceholder ==
  [TsRow(TsValues(TsData(SchemaTime, Null, FALSE), SchemaTime), 1)
     EXCEPT !.tvl_usd = 0, !.tvl_eth = 0, !.unique_stakers = 0,
            !.data_source = "blockchain", !.collection_status = "initial"]

RepoInit ==
  /\ now = 1
  /\ calls = 0
  /\ time_series_data = {InitialPlaceholder}
  /\ whale_wallets = {}
  /\ twitter_sentiment = {}
  /\ ts_seq = 2
  /\ whale_seq = 1
  /\ tw_seq = 1
  /\ tsHist = [t \in Times |-> <<>>]
  /\ whHist = [a \in Addresses |-> <<>>]
  /\ twHist = [t \in TweetIds |-> <<>>]


\* ------------------------------------------------------------------ anomalies
MaxAnomalies == 4     \* rows the anomaly specifications insert at most

Severities == {"CRITICAL", "HIGH", "MEDIUM", "LOW"}
AnomalyIds == 1..MaxAnomalies

VARIABLES
  anomalies,    \* table: set of rows
  anom_seq,     \* anomalies_id_seq (SERIAL)
  anInserted,   \* history: per id, the row as insertAnomaly stored it
  anViews,      \* history: per id, the getAnomalyById calls that updated it
                \* (how many, and the NOW() of the latest)
  anListing     \* the rows getActiveAnomalies returned last, until the next write

anomVars == <<anomalies, anom_seq, anInserted, anViews, anListing>>

NoListing == [made |-> FALSE, rows |-> <<>>]

\* JSON.stringify(x): undefined for undefined (bound as NULL), the JSON text
\* of an object otherwise.
JsonStringify(x) == IF x = NullStr THEN NullStr ELSE IF x = "obj" THEN "{\"k\":1}" ELSE x

\* data.affected_metrics || []
JsOrArray(a) == IF a = NullStr THEN "{}" ELSE a

\* The caller's `data` objects: severity sev, data.status st (NullStr leaves
\* it out), and the optional analysis context supplied iff opt.
AnData(sev, st, opt) ==
  [anomaly_type |-> "tvl_change", severity |-> sev, confidence |-> 1,
   title |-> "title", description |-> "description",
   recommendation |-> IF opt THEN "act" ELSE NullStr,
   affected_metrics |-> IF opt THEN "{tvl_usd}" ELSE NullStr,
   baseline_data |-> IF opt THEN "obj" ELSE NullStr,
   recent_data |-> IF opt THEN "obj" ELSE NullStr,
   statistical_significance |-> IF opt THEN 1 ELSE Null,
   historical_comparison |-> IF opt THEN "none" ELSE NullStr,
   similar_past_events |-> IF opt THEN "obj" ELSE NullStr,
   claude_prompt |-> IF opt THEN "prompt" ELSE NullStr,
   claude_response |-> IF opt THEN "obj" ELSE NullStr,
   analysis_duration_ms |-> IF opt THEN 1 ELSE Null,
   status |-> st]

\* The sixteen values bound to $1..$16.
AnValues(data) ==
  [anomaly_type |-> data.anomaly_type,
   severity |-> data.severity,
   confidence |-> data.confidence,
   title |-> data.title,
   description |-> data.description,
   recommendation |-> data.recommendation,
   affected_metrics |-> JsOrArray(data.affected_metrics),
   baseline_data |-> JsonStringify(data.baseline_data),
   recent_data |-> JsonStringify(data.recent_data),
   statistical_significance |-> data.statistical_significance,
   historical_comparison |-> data.historical_comparison,
   similar_past_events |-> JsonStringify(data.similar_past_events),
   claude_prompt |-> data.claude_prompt,
   claude_response |-> JsonStringify(data.claude_response),
   analysis_duration_ms |-> data.analysis_duration_ms,
   status |-> JsOrStr(data.status, "active")]

\* The inserted row: the bound values, and the column defaults for the rest.
AnRowResolvedOnInsert(values, id, clock) ==
  [id |-> id, detected_at |-> clock,
   anomaly_type |-> values.anomaly_type, severity |-> values.severity,
   confidence |-> values.confidence, title |-> values.title,
   description |-> values.description, recommendation |-> values.recommendation,
   affected_metrics |-> values.affected_metrics,
   baseline_data |-> values.baseline_data, recent_data |-> values.recent_data,
   statistical_significance |-> values.statistical_significance,
   historical_comparison |-> values.historical_comparison,
   similar_past_events |-> values.similar_past_events,
   claude_prompt |-> values.claude_prompt, claude_response |-> values.claude_response,
   analysis_duration_ms |-> values.analysis_duration_ms,
   status |-> values.status,
   resolved_at |-> IF values.status = "resolved" THEN clock ELSE Null,
   resolution_notes |-> NullStr,
   user_acknowledged |-> FALSE, user_notes |-> NullStr,
   view_count |-> 0, last_viewed_at |-> Null]

AnRow(values, id, clock) ==
  [id |-> id, detected_at |-> clock,
   anomaly_type |-> values.anomaly_type, severity |-> values.severity,
   confidence |-> values.confidence, title |-> values.title,
   description |-> values.description, recommendation |-> values.recommendation,
   affected_metrics |-> values.affected_metrics,
   baseline_data |-> values.baseline_data, recent_data |-> values.recent_data,
   statistical_significance |-> values.statistical_significance,
   historical_comparison |-> values.historical_comparison,
   similar_past_events |-> values.similar_past_events,
   claude_prompt |-> values.claude_prompt, claude_response |-> values.claude_response,
   analysis_duration_ms |-> values.analysis_duration_ms,
   status |-> values.status,
   resolved_at |-> Null, resolution_notes |-> NullStr,
   user_acknowledged |-> FALSE, user_notes |-> NullStr,
   view_count |-> 0, last_viewed_at |-> Null]

\* anomaly_type, severity, confidence, title and description are NOT NULL.
AnNotNull(values) ==
  /\ values.anomaly_type # NullStr
  /\ values.severity # NullStr
  /\ values.confidence # Null
  /\ values.title # NullStr
  /\ values.description # NullStr

insertAnomaly(data, ok) ==
  /\ LET values == AnValues(data) IN
     IF ok /\ AnNotNull(values)
     THEN /\ anomalies' = anomalies \cup {AnRow(values, anom_seq, now)}
          /\ anom_seq' = anom_seq + 1
          /\ anInserted' = [anInserted EXCEPT ![anom_seq] = <<AnRow(values, anom_seq, now)>>]
          /\ anListing' = NoListing
          /\ UNCHANGED anViews
     ELSE UNCHANGED anomVars
  /\ UNCHANGED repoVars

ViewUpdateKeepsCount(row, clock) == [row EXCEPT !.last_viewed_at = clock]

\* A mutant of ViewUpdate: viewing an anomaly also reopens it.
ViewUpdateReactivates(row, clock) ==
  [row EXCEPT !.view_count = @ + 1, !.last_viewed_at = clock, !.status = "active"]

\* SET view_count = view_count + 1, last_viewed_at = NOW()
ViewUpdate(row, clock) ==
  [row EXCEPT !.view_count = @ + 1, !.last_viewed_at = clock]

\* UPDATE anomalies ... WHERE id = $1 RETURNING *: one statement, applied to
\* the row as the statements before it left it.
getAnomalyById(id, ok) ==
  /\ IF ok /\ \E r \in anomalies : r.id = id
     THEN /\ anomalies' = {IF r.id = id THEN ViewUpdate(r, now) ELSE r : r \in anomalies}
          /\ anViews' = [anViews EXCEPT ![id] = [n |-> @.n + 1, at |-> now]]
          /\ anListing' = NoListing
          /\ UNCHANGED <<anom_seq, anInserted>>
     ELSE UNCHANGED anomVars
  /\ UNCHANGED repoVars

SeverityRankReversed(severity) ==
  CASE severity = "CRITICAL" -> 4
    [] severity = "HIGH" -> 3
    [] severity = "MEDIUM" -> 2
    [] severity = "LOW" -> 1
    [] OTHER -> Null

\* CASE severity WHEN 'CRITICAL' THEN 1 ... WHEN 'LOW' THEN 4 END: NULL for
\* any other severity.
SeverityRank(severity) ==
  CASE severity = "CRITICAL" -> 1
    [] severity = "HIGH" -> 2
    [] severity = "MEDIUM" -> 3
    [] severity = "LOW" -> 4
    [] OTHER -> Null

\* ORDER BY CASE ... END, detected_at DESC: row a must come before row b.
\* Ascending order puts a NULL rank last.
OrderedBefore(a, b) ==
  LET ra == SeverityRank(a.severity)
      rb == SeverityRank(b.severity)
  IN \/ ra # Null /\ rb = Null
     \/ ra # Null /\ rb # Null /\ ra < rb
     \/ ra = rb /\ a.detected_at > b.detected_at

\* The columns the view active_anomalies selects.
ActiveColumns(r) ==
  [id |-> r.id, detected_at |-> r.detected_at, anomaly_type |-> r.anomaly_type,
   severity |-> r.severity, confidence |-> r.confidence, title |-> r.title,
   description |-> r.description, affected_metrics |-> r.affected_metrics,
   recommendation |-> r.recommendation]

IsListed(status) == status = "active"

\* Every order the ORDER BY allows for the rows S (rows that compare equal
\* come in any order).
RECURSIVE Orderings(_)
Orderings(S) ==
  IF S = {} THEN {<<>>}
  ELSE UNION {{<<r>> \o t : t \in Orderings(S \ {r})} :
                r \in {m \in S : \A q \in S : ~OrderedBefore(q, m)}}

\* The view active_anomalies.
active_anomalies ==
  Orderings({ActiveColumns(r) : r \in {x \in anomalies : IsListed(x.status)}})

\* SELECT * FROM active_anomalies
getActiveAnomalies(ok) ==
  /\ ok
  /\ \E rows \in active_anomalies : anListing' = [made |-> TRUE, rows |-> rows]
  /\ UNCHANGED <<anomalies, anom_seq, anInserted, anViews>>
  /\ UNCHANGED repoVars

\* The clock advances (to at most `limit`).
Elapse(limit) ==
  /\ now < limit
  /\ now' = now + 1
  /\ UNCHANGED <<calls, time_series_data, whale_wallets, twitter_sentiment,
                 ts_seq, whale_seq, tw_seq, tsHist, whHist, twHist>>

\* The getAnomalyById statements that have changed the table so far.
RECURSIVE SumViews(_)
SumViews(ids) ==
  IF ids = {} THEN 0
  ELSE LET i == CHOOSE x \in ids : TRUE IN anViews[i].n + SumViews(ids \ {i})
AnViewsMade == SumViews(AnomalyIds)

AnomInit ==
  /\ anomalies = {}
  /\ anom_seq = 1
  /\ anInserted = [i \in AnomalyIds |-> <<>>]
  /\ anViews = [i \in AnomalyIds |-> [n |-> 0, at |-> Null]]
  /\ anListing = NoListing

\* ------------------------------------------------------------ validator_metrics
VARIABLES
  validator_metrics,  \* table: set of rows
  vm_seq              \* validator_metrics_id_seq (SERIAL)

VARIABLE vmLast       \* the last insertValidatorMetrics call: the values it
                      \* bound and the row it returned, or that it rejected
vmVars == <<vmLast>>

NoVmCall == [kind |-> "none", id |-> Null, values |-> <<>>]
VmInit == vmLast = NoVmCall

\* The caller's `data` objects for insertValidatorMetrics.
VmData(T, p) ==
  [timestamp |-> T, total_validators |-> p, active_validators |-> p,
   exited_validators |-> p, slashed_validators |-> p, avg_effectiveness |-> p,
   total_rewards_eth |-> p, total_penalties_eth |-> p, net_rewards_eth |-> p,
   estimated_apr |-> p, estimated_apy |-> p, etherfi_apr |-> p,
   network_avg_apr |-> p, apr_vs_network |-> p]

\* The bound parameters $1..$14.
VmValues(data, clock) == [data EXCEPT !.timestamp = JsOr(data.timestamp, clock)]

VmRow(values, id) ==
  [id |-> id, timestamp |-> values.timestamp,
   total_validators |-> values.total_validators,
   active_validators |-> values.active_validators,
   exited_validators |-> values.exited_validators,
   slashed_validators |-> values.slashed_validators,
   avg_effectiveness |-> values.avg_effectiveness,
   total_rewards_eth |-> values.total_rewards_eth,
   total_penalties_eth |-> values.total_penalties_eth,
   net_rewards_eth |-> values.net_rewards_eth,
   estimated_apr |-> values.estimated_apr, estimated_apy |-> values.estimated_apy,
   etherfi_apr |-> values.etherfi_apr, network_avg_apr |-> values.network_avg_apr,
   apr_vs_network |-> values.apr_vs_network]

\* A mutant of VmConflictUpdate: the conflict branch rewrites the whole row.
VmConflictUpdateAll(row, excluded) == [excluded EXCEPT !.id = row.id]

\* ON CONFLICT (timestamp) DO UPDATE SET ...
VmConflictUpdate(row, excluded) ==
  [row EXCEPT !.active_validators = excluded.active_validators,
              !.estimated_apr = excluded.estimated_apr]

\* The INSERT ... ON CONFLICT statement, under unique_validator_timestamp.
VmUpsert(table, excluded) ==
  IF \E r \in table : r.timestamp = excluded.timestamp
  THEN {IF r.timestamp = excluded.timestamp THEN VmConflictUpdate(r, excluded) ELSE r : r \in table}
  ELSE table \cup {excluded}

\* RETURNING id, then result.rows[0]: the id of the row the statement
\* inserted or updated.
VmReturning(table, timestamp) ==
  [id |-> (CHOOSE r \in table : r.timestamp = timestamp).id]

insertValidatorMetrics(data, ok) ==
  /\ calls < MaxCalls
  /\ calls' = calls + 1
  /\ LET values == VmValues(data, now) IN
     IF ok
     THEN /\ validator_metrics' = VmUpsert(validator_metrics, VmRow(values, vm_seq))
          /\ vm_seq' = vm_seq + 1
          /\ vmLast' = [kind |-> "row", id |-> VmReturning(validator_metrics', values.timestamp).id,
                        values |-> values]
     ELSE /\ UNCHANGED <<validator_metrics, vm_seq>>
          /\ vmLast' = [kind |-> "rejected", id |-> Null, values |-> values]
  /\ UNCHANGED <<now, time_series_data, whale_wallets, twitter_sentiment,
                 ts_seq, whale_seq, tw_seq, tsHist, whHist, twHist>>

\* ------------------------------------------------------------------ retention
\* cleanupOldData() runs SELECT cleanup_old_data(): four DELETE statements in
\* one transaction.  NOW() is the start time of that transaction in all
\* four.  Until the transaction commits, the rows it deleted stay visible to
\* the other sessions, and a statement of theirs that would write such a row
\* waits; when it fails, none of its deletions takes effect.  Timestamps and
\* the clock count days.

TimeSeriesRetentionDays == 90
SentimentRetentionDays == 60
AnomalyRetentionDays == 90
ValidatorRetentionDays == 90

VARIABLES
  clPc,       \* idle | time_series_data | twitter_sentiment | anomalies |
              \* validator_metrics | commit | done | failed
  clNow,      \* NOW() of the cleanup transaction
  clDeleted,  \* per table, the rows the open transaction deleted
  clRun,      \* history: the tables when cleanupOldData was called, whether
              \* another session has written since, and whether the call
              \* repeats a complete run at the same clock value
  cleanAt     \* history: the clock value of the last complete run, while no
              \* other session has written since it was called

retVars == <<validator_metrics, vm_seq, clPc, clNow, clDeleted, clRun, cleanAt>>

NothingDeleted == [ts |-> {}, tw |-> {}, an |-> {}, vm |-> {}]

Tables ==
  [ts |-> time_series_data, tw |-> twitter_sentiment, an |-> anomalies,
   vm |-> validator_metrics, wh |-> whale_wallets]

ExpiredInclusive(timestamp, clock, days) == timestamp # Null /\ timestamp <= clock - days

\* timestamp < NOW() - INTERVAL 'days': never true of a NULL.
Expired(timestamp, clock, days) == timestamp # Null /\ timestamp < clock - days

TsExpiredOne(table, clock) ==
  LET old == {r \in table : Expired(r.timestamp, clock, TimeSeriesRetentionDays)}
  IN {r \in old : \A q \in old : r.timestamp <= q.timestamp}

\* DELETE FROM time_series_data WHERE timestamp < NOW() - INTERVAL '90 days'
TsExpired(table, clock) ==
  {r \in table : Expired(r.timestamp, clock, TimeSeriesRetentionDays)}

\* DELETE FROM twitter_sentiment WHERE timestamp < NOW() - INTERVAL '60 days'
TwExpired(table, clock) ==
  {r \in table : Expired(r.timestamp, clock, SentimentRetentionDays)}

AnExpiredAnyStatus(table, clock) ==
  {r \in table : Expired(r.resolved_at, clock, AnomalyRetentionDays)}

\* DELETE FROM anomalies WHERE status = 'resolved'
\*   AND resolved_at < NOW() - INTERVAL '90 days'
AnExpired(table, clock) ==
  {r \in table : r.status = "resolved"
                   /\ Expired(r.resolved_at, clock, AnomalyRetentionDays)}

VmExpiredAsSentiment(table, clock) ==
  {r \in table : Expired(r.timestamp, clock, SentimentRetentionDays)}

\* DELETE FROM validator_metrics WHERE timestamp < NOW() - INTERVAL '90 days'
VmExpired(table, clock) ==
  {r \in table : Expired(r.timestamp, clock, ValidatorRetentionDays)}

\* cleanupOldData(): query('SELECT cleanup_old_data()') reaches the database
\* and the function's transaction starts, or the query fails before it does.
cleanupOldData(ok) ==
  /\ clPc = "idle"
  /\ IF ok
     THEN /\ clPc' = "time_series_data"
          /\ clNow' = now
     ELSE /\ clPc' = "failed"
          /\ UNCHANGED clNow
  /\ clRun' = [before |-> Tables, quiet |-> TRUE, rerun |-> cleanAt = now]
  /\ UNCHANGED <<validator_metrics, vm_seq, clDeleted, cleanAt>>
  /\ UNCHANGED <<repoVars, anomVars>>

DeleteTimeSeries ==
  /\ clPc = "time_series_data"
  /\ clDeleted' = [clDeleted EXCEPT !.ts = TsExpired(time_series_data, clNow)]
  /\ clPc' = "twitter_sentiment"
  /\ UNCHANGED <<validator_metrics, vm_seq, clNow, clRun, cleanAt>>
  /\ UNCHANGED <<repoVars, anomVars>>

DeleteSentiment ==
  /\ clPc = "twitter_sentiment"
  /\ clDeleted' = [clDeleted EXCEPT !.tw = TwExpired(twitter_sentiment, clNow)]
  /\ clPc' = "anomalies"
  /\ UNCHANGED <<validator_metrics, vm_seq, clNow, clRun, cleanAt>>
  /\ UNCHANGED <<repoVars, anomVars>>

DeleteAnomalies ==
  /\ clPc = "anomalies"
  /\ clDeleted' = [clDeleted EXCEPT !.an = AnExpired(anomalies, clNow)]
  /\ clPc' = "validator_metrics"
  /\ UNCHANGED <<validator_metrics, vm_seq, clNow, clRun, cleanAt>>
  /\ UNCHANGED <<repoVars, anomVars>>

DeleteValidator ==
  /\ clPc = "validator_metrics"
  /\ clDeleted' = [clDeleted EXCEPT !.vm = VmExpired(validator_metrics, clNow)]
  /\ clPc' = "commit"
  /\ UNCHANGED <<validator_metrics, vm_seq, clNow, clRun, cleanAt>>
  /\ UNCHANGED <<repoVars, anomVars>>

\* The function returns and its transaction commits: the deletions take
\* effect; query() resolves.
CleanupCommit ==
  /\ clPc = "commit"
  /\ time_series_data' = time_series_data \ clDeleted.ts
  /\ twitter_sentiment' = twitter_sentiment \ clDeleted.tw
  /\ anomalies' = anomalies \ clDeleted.an
  /\ validator_metrics' = validator_metrics \ clDeleted.vm
  /\ clDeleted' = NothingDeleted
  /\ clPc' = "done"
  /\ cleanAt' = IF clRun.quiet THEN clNow ELSE Null
  /\ anListing' = IF clDeleted.an = {} THEN anListing ELSE NoListing
  /\ UNCHANGED <<vm_seq, clNow, clRun>>
  /\ UNCHANGED <<now, calls, whale_wallets, ts_seq, whale_seq, tw_seq, tsHist, whHist, twHist>>
  /\ UNCHANGED <<anom_seq, anInserted, anViews>>

\* The statement is interrupted (statement_timeout, a lost connection): the
\* transaction is rolled back and query() rejects.
CleanupAbort ==
  /\ clPc \in {"time_series_data", "twitter_sentiment", "anomalies",
               "validator_metrics", "commit"}
  /\ clDeleted' = NothingDeleted
  /\ clPc' = "failed"
  /\ UNCHANGED <<validator_metrics, vm_seq, clNow, clRun, cleanAt>>
  /\ UNCHANGED <<repoVars, anomVars>>

\* console.log('[DB] Old data cleanup completed') and the promise settles.
CleanupReturn ==
  /\ clPc \in {"done", "failed"}
  /\ clPc' = "idle"
  /\ UNCHANGED <<validator_metrics, vm_seq, clNow, clDeleted, clRun, cleanAt>>
  /\ UNCHANGED <<repoVars, anomVars>>

\* Another session's write, next to a cleanup: the histories note it.
NotedWrite ==
  /\ clRun' = [clRun EXCEPT !.quiet = FALSE]
  /\ cleanAt' = Null

\* A statement of another session may write the row whose `column` is
\* `value` unless the open cleanup transaction has deleted that row.
NotLocked(deleted, column, value) == \A r \in deleted : r[column] # value

RetInit ==
  /\ validator_metrics = {}
  /\ vm_seq = 1
  /\ clPc = "idle"
  /\ clNow = Null
  /\ clDeleted = NothingDeleted
  /\ clRun = [before |-> Tables, quiet |-> TRUE, rerun |-> FALSE]
  /\ cleanAt = Null

\* Anomalies whose status and resolved_at were set outside the repository
\* (no repository operation sets resolved_at), as the retention finds them
\* on day 1: resolved `age` days ago (Null: without a date), detected 200
\* days ago.
SeededAnomaly(id, status, age) ==
  [AnRow(AnValues(AnData("HIGH", status, FALSE)), id, 1 - 200)
     EXCEPT !.resolved_at = IF age = Null THEN Null ELSE 1 - age]

SeededAnomalies ==
  {SeededAnomaly(1, "resolved", AnomalyRetentionDays + 1),
   SeededAnomaly(2, "resolved", AnomalyRetentionDays),
   SeededAnomaly(3, "resolved", AnomalyRetentionDays - 1),
   SeededAnomaly(4, "resolved", Null),
   SeededAnomaly(5, "false_positive", AnomalyRetentionDays + 1),
   SeededAnomaly(6, "active", Null)}

SeededAnomInit ==
  /\ anomalies = SeededAnomalies
  /\ anom_seq = Cardinality(SeededAnomalies) + 1
  /\ anInserted = [i \in AnomalyIds |-> <<>>]
  /\ anViews = [i \in AnomalyIds |-> [n |-> 0, at |-> Null]]
  /\ anListing = NoListing

\* ---------------------------------------------------------- concurrent upserts
\* Two callers upsert one key at the same time: both calls are issued, and
\* the database applies the two statements one after the other (the second
\* waits on the unique index for the first to commit), in either order.
Writers == {"A", "B"}

VARIABLES
  raceKind,     \* none | time_series_data | whale_wallets
  raceData,     \* per writer, the `data` of its call
  racePending,  \* the writers whose statement has not been applied
  raceOrder,    \* history: the writers in the order applied, with each NOW()
  raceStart     \* history: the tables and sequences when the calls were issued

raceVars == <<raceKind, raceData, racePending, raceOrder, raceStart>>

RaceSnapshot ==
  [ts |-> time_series_data, wh |-> whale_wallets, ts_seq |-> ts_seq, whale_seq |-> whale_seq]

RaceInit ==
  /\ raceKind = "none"
  /\ raceData = [w \in Writers |-> NullStr]
  /\ racePending = {}
  /\ raceOrder = <<>>
  /\ raceStart = RaceSnapshot

\* Both callers have called insertTimeSeriesData (on timestamp T) or
\* upsertWhaleWallet (on address a), with different values.
RaceBegin(kind, dataA, dataB) ==
  /\ raceKind = "none"
  /\ calls + 2 <= MaxCalls
  /\ raceKind' = kind
  /\ raceData' = [w \in Writers |-> IF w = "A" THEN dataA ELSE dataB]
  /\ racePending' = Writers
  /\ raceStart' = RaceSnapshot
  /\ UNCHANGED raceOrder
  /\ UNCHANGED repoVars

\* The database applies the statement of writer w.
RaceApply(w) ==
  /\ w \in racePending
  /\ IF raceKind = "time_series_data"
     THEN insertTimeSeriesData(raceData[w], TRUE)
     ELSE upsertWhaleWallet(raceData[w], TRUE)
  /\ racePending' = racePending \ {w}
  /\ raceOrder' = Append(raceOrder, [writer |-> w, at |-> now])
  /\ UNCHANGED <<raceKind, raceData, raceStart>>

\* ======================================================= transaction runner
\* db-connection.js: getClient() and transaction(callback) over one pooled
\* client.  The callback issues TxStmts writes on the client, one after the
\* other, and fails at the first write that fails.  The write of statement n
\* of run k is the effect <<k, n>>.

MaxRuns == 2
TxStmts == 2

VARIABLES
  txPc,       \* where transaction() stands
  txRun,      \* the number of the current call of transaction()
  cl,         \* the pooled client and its database session
  db,         \* the committed effects: what every session sees
  stmtIdx,    \* the next statement of the callback
  caught,     \* the error bound in `catch (error)`
  txOutcome,  \* how transaction() settled
  txLog,      \* this run's events, in order
  acquired,   \* clients acquired by this run
  released,   \* release() calls of this run
  partial     \* history: runs whose callback succeeded on statement 1 and failed later

txVars == <<txPc, txRun, cl, db, stmtIdx, caught, txOutcome, txLog, acquired, released, partial>>

NoError == <<"none", 0>>
Pending == [kind |-> "pending", error |-> NoError]
Resolved == [kind |-> "resolved", error |-> NoError]
Rejected(e) == [kind |-> "rejected", error |-> e]

\* How one client.query() can end: the server executed it ("ok"), the server
\* refused it ("dberr"), the client-side query_timeout fired with the
\* statement never executed ("timeout"), or the connection was lost ("lost").
QueryOutcomes == {"ok", "dberr", "timeout", "lost"}

NoClient == [where |-> "none", status |-> "idle", pending |-> {}]

\* The outcomes a statement can have in a session.
CanEnd(session, sql, o) ==
  CASE session.status = "dead" -> o = "lost"
    [] session.status = "aborted" ->
         IF sql \in {"ROLLBACK", "COMMIT"} THEN o \in {"ok", "timeout", "lost"}
         ELSE o \in {"dberr", "timeout", "lost"}
    [] OTHER ->
         IF sql \in {"BEGIN", "ROLLBACK"} THEN o \in {"ok", "timeout", "lost"}
         ELSE o \in QueryOutcomes

\* The session after client.query(sql) ended with outcome o.
SessionAfter(session, sql, eff, o) ==
  CASE o = "timeout" -> session
    [] o = "lost" -> [session EXCEPT !.status = "dead", !.pending = {}]
    [] o = "dberr" ->
         IF sql = "COMMIT" THEN [session EXCEPT !.status = "idle", !.pending = {}]
         ELSE IF session.status = "open" THEN [session EXCEPT !.status = "aborted"]
         ELSE session
    [] OTHER ->
         CASE sql = "BEGIN" -> [session EXCEPT !.status = "open"]
           [] sql = "write" ->
                IF session.status = "open"
                THEN [session EXCEPT !.pending = @ \cup {eff}]
                ELSE session
           [] OTHER -> [session EXCEPT !.status = "idle", !.pending = {}]

\* What client.query(sql) with outcome o commits.
CommittedBy(session, sql, eff, o) ==
  IF o # "ok" THEN {}
  ELSE CASE sql = "COMMIT" -> IF session.status = "open" THEN session.pending ELSE {}
         [] sql = "write" -> IF session.status = "idle" THEN {eff} ELSE {}
         [] OTHER -> {}

Event(what, n, ok) == [what |-> what, n |-> n, ok |-> ok]

ClientQuery(sql, eff, o) ==
  /\ CanEnd(cl, sql, o)
  /\ cl' = SessionAfter(cl, sql, eff, o)
  /\ db' = db \cup CommittedBy(cl, sql, eff, o)

TxInit ==
  /\ txPc = "idle"
  /\ txRun = 0
  /\ cl = NoClient
  /\ db = {}
  /\ stmtIdx = 1
  /\ caught = NoError
  /\ txOutcome = Pending
  /\ txLog = <<>>
  /\ acquired = 0
  /\ released = 0
  /\ partial = {}

\* A caller calls transaction(callback).
TxCall ==
  /\ txPc = "idle"
  /\ txRun < MaxRuns
  /\ txRun' = txRun + 1
  /\ txPc' = "getClient"
  /\ stmtIdx' = 1
  /\ caught' = NoError
  /\ txOutcome' = Pending
  /\ txLog' = <<>>
  /\ acquired' = 0
  /\ released' = 0
  /\ UNCHANGED <<cl, db, partial>>

\* const client = await getClient();  pool.connect() hands out the idle client
\* or a new one, or rejects (outside the try: nothing to release).
GetClient(ok) ==
  /\ txPc = "getClient"
  /\ IF ok
     THEN /\ cl' = IF cl.where = "idle" THEN [cl EXCEPT !.where = "out"]
                   ELSE [NoClient EXCEPT !.where = "out"]
          /\ acquired' = acquired + 1
          /\ txLog' = Append(txLog, Event("acquire", 0, TRUE))
          /\ txPc' = "BEGIN"
          /\ UNCHANGED txOutcome
     ELSE /\ txOutcome' = Rejected(<<"connect", 0>>)
          /\ txPc' = "done"
          /\ UNCHANGED <<cl, acquired, txLog>>
  /\ UNCHANGED <<txRun, db, stmtIdx, caught, partial, released>>

\* Mutants of the control flow below.
CatchEntrySkipsRollback == "finally"
AfterRollbackThrowsSkipsRelease == "done"

\* catch (error) { await client.query('ROLLBACK'); ... }: where control goes
\* when BEGIN, the callback or COMMIT throws.
CatchEntry == "ROLLBACK"

\* finally { client.release(); }: where control goes when the ROLLBACK inside
\* the catch block itself throws.
AfterRollbackThrows == "finally"

\* The error transaction() rejects with after the catch block: `throw error`
\* rethrows the caught one, unless the ROLLBACK threw first, and then that
\* exception leaves the catch block instead.
ErrorLeavingCatch(error, rollbackOk) == IF rollbackOk THEN error ELSE <<"ROLLBACK", 0>>

\* await client.query('BEGIN');
Begin(o) ==
  /\ txPc = "BEGIN"
  /\ ClientQuery("BEGIN", <<0, 0>>, o)
  /\ IF o = "ok"
     THEN \* const result = await callback(client): the callback is invoked
          /\ txLog' = txLog \o <<Event("BEGIN", 0, TRUE), Event("callback", 0, TRUE)>>
          /\ txPc' = "callback"
          /\ UNCHANGED caught
     ELSE /\ txLog' = Append(txLog, Event("BEGIN", 0, FALSE))
          /\ caught' = <<"BEGIN", 0>>
          /\ txPc' = CatchEntry
  /\ UNCHANGED <<txRun, stmtIdx, txOutcome, acquired, released, partial>>

\* The callback's next statement on the client; it throws when the statement
\* fails and returns after its last statement.
Callback(o) ==
  /\ txPc = "callback"
  /\ ClientQuery("write", <<txRun, stmtIdx>>, o)
  /\ txLog' = Append(txLog, Event("stmt", stmtIdx, o = "ok"))
  /\ IF o = "ok"
     THEN /\ stmtIdx' = stmtIdx + 1
          /\ txPc' = IF stmtIdx = TxStmts THEN "COMMIT" ELSE "callback"
          /\ UNCHANGED <<caught, partial>>
     ELSE /\ caught' = <<"stmt", stmtIdx>>
          /\ partial' = IF stmtIdx > 1 THEN partial \cup {txRun} ELSE partial
          /\ txPc' = CatchEntry
          /\ UNCHANGED stmtIdx
  /\ UNCHANGED <<txRun, txOutcome, acquired, released>>

\* await client.query('COMMIT'); return result;
Commit(o) ==
  /\ txPc = "COMMIT"
  /\ ClientQuery("COMMIT", <<0, 0>>, o)
  /\ txLog' = Append(txLog, Event("COMMIT", 0, o = "ok"))
  /\ IF o = "ok"
     THEN /\ txOutcome' = Resolved
          /\ txPc' = "finally"
          /\ UNCHANGED caught
     ELSE /\ caught' = <<"COMMIT", 0>>
          /\ txPc' = CatchEntry
          /\ UNCHANGED txOutcome
  /\ UNCHANGED <<txRun, stmtIdx, acquired, released, partial>>

\* await client.query('ROLLBACK'); console.error(...); throw error;
Rollback(o) ==
  /\ txPc = "ROLLBACK"
  /\ ClientQuery("ROLLBACK", <<0, 0>>, o)
  /\ txLog' = Append(txLog, Event("ROLLBACK", 0, o = "ok"))
  /\ txOutcome' = Rejected(ErrorLeavingCatch(caught, o = "ok"))
  /\ txPc' = IF o = "ok" THEN "finally" ELSE AfterRollbackThrows
  /\ UNCHANGED <<txRun, stmtIdx, caught, acquired, released, partial>>

\* finally { client.release(); }  The pool keeps a live client idle, session
\* and all, and removes a client whose connection is gone.
Finally ==
  /\ txPc = "finally"
  /\ released' = released + 1
  /\ txLog' = Append(txLog, Event("release", 0, TRUE))
  /\ cl' = IF cl.status = "dead" THEN NoClient ELSE [cl EXCEPT !.where = "idle"]
  /\ txPc' = "done"
  /\ UNCHANGED <<txRun, db, stmtIdx, caught, txOutcome, acquired, partial>>

\* The promise of transaction() settles; the caller may call again.
TxReturn ==
  /\ txPc = "done"
  /\ txPc' = "idle"
  /\ UNCHANGED <<txRun, cl, db, stmtIdx, caught, txOutcome, txLog, acquired, released, partial>>

\* idleTimeoutMillis: the pool closes the idle client; the server ends its
\* session and discards what it had not committed.
PoolEvictIdle ==
  /\ cl.where = "idle"
  /\ cl' = NoClient
  /\ UNCHANGED <<txPc, txRun, db, stmtIdx, caught, txOutcome, txLog, acquired, released, partial>>

\* ============================================================= retry policy
\* error-handler.js: retry(fn, options).  fn is the caller's operation: each
\* invocation either returns a result or throws an Error; onRetry, when given,
\* is an observer that returns normally.

MaxAttempts == 3
MaxDelay == 2
MaxMultiplier == 3

DefaultMaxAttempts == 3
DefaultDelayMs == 1000
DefaultBackoffMultiplier == 2

FnErrors == {"EA", "EB"}
FnResults == {"r1", "r2"}
Undefined == "undefined"

VARIABLES
  rPc,        \* where retry() stands
  rOpts,      \* the destructured options
  attempt,    \* the loop variable
  delay,      \* the delay of the next wait
  lastError,  \* the last error caught
  fnCalls,    \* history: invocations of fn
  thrown,     \* history: the error of every failed attempt, in order
  fnResult,   \* history: what fn returned on success
  hookLog,    \* history: the <<error, attempt>> onRetry was invoked with
  waits,      \* history: the delays handed to setTimeout
  rOutcome    \* how retry() settled

retryVars == <<rPc, rOpts, attempt, delay, lastError, fnCalls, thrown, fnResult,
               hookLog, waits, rOutcome>>

\* The options a caller passes: {} takes every default.
DefaultOptions ==
  [maxAttempts |-> DefaultMaxAttempts, delayMs |-> DefaultDelayMs,
   backoffMultiplier |-> DefaultBackoffMultiplier, onRetry |-> FALSE]

RetryOptions ==
  {DefaultOptions}
  \cup [maxAttempts : (-1)..MaxAttempts, delayMs : 1..MaxDelay,
        backoffMultiplier : 1..MaxMultiplier, onRetry : BOOLEAN]

\* Mutants of the three definitions below.
RetryAgainInclusive(k, maxAttempts) == k <= maxAttempts
NextDelayAdds(d, backoffMultiplier) == d + backoffMultiplier
CaughtErrorKeepsFirst(previous, error) == IF previous = Undefined THEN error ELSE previous

\* A mutant of LoopContinues: the body runs once before the test.
LoopTestsAfterBody(k, maxAttempts) == k = 1 \/ k <= maxAttempts

\* for (let attempt = 1; attempt <= maxAttempts; attempt++)
LoopContinues(k, maxAttempts) == k <= maxAttempts

\* if (attempt < maxAttempts)
RetryAgain(k, maxAttempts) == k < maxAttempts

\* delay *= backoffMultiplier
NextDelay(d, backoffMultiplier) == d * backoffMultiplier

\* lastError = error
CaughtError(previous, error) == error

RetryInit ==
  /\ rPc = "idle"
  /\ rOpts = DefaultOptions
  /\ attempt = 0
  /\ delay = 0
  /\ lastError = Undefined
  /\ fnCalls = 0
  /\ thrown = <<>>
  /\ fnResult = Undefined
  /\ hookLog = <<>>
  /\ waits = <<>>
  /\ rOutcome = [kind |-> "pending", value |-> Undefined]

\* retry(fn, options): let lastError; let delay = delayMs; attempt = 1
RetryCall(options) ==
  /\ rPc = "idle"
  /\ rOpts' = options
  /\ delay' = options.delayMs
  /\ attempt' = 1
  /\ rPc' = "loop"
  /\ UNCHANGED <<lastError, fnCalls, thrown, fnResult, hookLog, waits, rOutcome>>

\* attempt <= maxAttempts: return await fn();
FnReturns(result) ==
  /\ rPc = "loop"
  /\ LoopContinues(attempt, rOpts.maxAttempts)
  /\ fnCalls' = fnCalls + 1
  /\ fnResult' = result
  /\ rOutcome' = [kind |-> "resolved", value |-> result]
  /\ rPc' = "done"
  /\ UNCHANGED <<rOpts, attempt, delay, lastError, thrown, hookLog, waits>>

\* attempt <= maxAttempts: fn() throws; the catch block up to the wait.
FnThrows(error) ==
  /\ rPc = "loop"
  /\ LoopContinues(attempt, rOpts.maxAttempts)
  /\ fnCalls' = fnCalls + 1
  /\ thrown' = Append(thrown, error)
  /\ lastError' = CaughtError(lastError, error)
  /\ IF RetryAgain(attempt, rOpts.maxAttempts)
     THEN /\ hookLog' = IF rOpts.onRetry THEN Append(hookLog, <<error, attempt>>) ELSE hookLog
          /\ rPc' = "wait"
          /\ UNCHANGED attempt
     ELSE /\ attempt' = attempt + 1
          /\ UNCHANGED <<hookLog, rPc>>
  /\ UNCHANGED <<rOpts, delay, fnResult, waits, rOutcome>>

\* await new Promise(resolve => setTimeout(resolve, delay)); delay *= backoffMultiplier
RetryWait ==
  /\ rPc = "wait"
  /\ waits' = Append(waits, delay)
  /\ delay' = NextDelay(delay, rOpts.backoffMultiplier)
  /\ attempt' = attempt + 1
  /\ rPc' = "loop"
  /\ UNCHANGED <<rOpts, lastError, fnCalls, thrown, fnResult, hookLog, rOutcome>>

\* The loop ends: throw lastError;
RetryExhausted ==
  /\ rPc = "loop"
  /\ ~LoopContinues(attempt, rOpts.maxAttempts)
  /\ rOutcome' = [kind |-> "rejected", value |-> lastError]
  /\ rPc' = "done"
  /\ UNCHANGED <<rOpts, attempt, delay, lastError, fnCalls, thrown, fnResult, hookLog, waits>>

\* ========================================================== connection pool
\* pool = new Pool(dbConfig) and its three users: query() (pool.query),
\* getClient() (pool.connect, the caller releases) and transaction()
\* (getClient, released in finally).  The pool is the driver's: connect()
\* hands out an idle client, creates one while fewer than `max` exist, and
\* otherwise queues the caller until a release or connectionTimeoutMillis.

PoolMax == 2          \* dbConfig.max (20), scaled
MaxUses == 2          \* dbConfig.maxUses (7500), scaled

Callers == 1..(PoolMax + 1)
ClientIds == 1..(PoolMax + 1)
PoolOps == {"query", "getClient", "transaction"}

VARIABLES
  pClients,   \* per client id: [state: absent | connecting | busy | idle, uses]
  pQueue,     \* the pool's pending queue: callers waiting in connect()
  cPc,        \* per caller: idle | connecting | waiting | holding
  cClient,    \* per caller: the client it connects or holds (0: none)
  cResult     \* the operation that settled last: its caller and outcome

poolVars == <<pClients, pQueue, cPc, cClient, cResult>>

NoResult == [caller |-> 0, kind |-> "none", name |-> "", message |-> ""]
Fulfilled(c) == [caller |-> c, kind |-> "fulfilled", name |-> "", message |-> ""]
\* The driver's errors are plain Error objects; nothing in query(),
\* getClient() or transaction() wraps them.
DriverError(c, message) ==
  [caller |-> c, kind |-> "rejected", name |-> "Error", message |-> message]
ConnectTimeout == "timeout exceeded when trying to connect"

AbsentClient == [state |-> "absent", uses |-> 0]
Live == {i \in ClientIds : pClients[i].state # "absent"}
IdleClients == {i \in ClientIds : pClients[i].state = "idle"}
\* new Client(): the pool's next client object (the least unused name).
FreeId == CHOOSE i \in ClientIds \ Live : \A j \in ClientIds \ Live : i <= j

IsFullExclusive(count, max) == count > max

\* pool._isFull(): this._clients.length >= this.options.max
IsFull(count, max) == count >= max

RetiresAfter(uses, maxUses) == uses >= maxUses

PoolInit ==
  /\ pClients = [i \in ClientIds |-> AbsentClient]
  /\ pQueue = <<>>
  /\ cPc = [c \in Callers |-> "idle"]
  /\ cClient = [c \in Callers |-> 0]
  /\ cResult = NoResult

\* pool.newClient(pendingItem): a client is added to the pool and connects.
NewClient(c, i) ==
  /\ pClients' = [pClients EXCEPT ![i] = [state |-> "connecting", uses |-> 0]]
  /\ cPc' = [cPc EXCEPT ![c] = "connecting"]
  /\ cClient' = [cClient EXCEPT ![c] = i]

\* The client `i` is checked out to caller `c`: client._poolUseCount++.
Checkout(c, i) ==
  /\ pClients' = [pClients EXCEPT ![i] = [state |-> "busy", uses |-> @.uses + 1]]
  /\ cPc' = [cPc EXCEPT ![c] = "holding"]
  /\ cClient' = [cClient EXCEPT ![c] = i]

\* query(), getClient() or transaction() reaches pool.connect(): the caller
\* is queued when the pool is full or has an idle client (which the next
\* pulse hands over), and gets a new client otherwise.
Connect(c) ==
  /\ cPc[c] = "idle"
  /\ UNCHANGED cResult
  /\ IF IsFull(Cardinality(Live), PoolMax) \/ IdleClients # {}
     THEN /\ pQueue' = Append(pQueue, c)
          /\ cPc' = [cPc EXCEPT ![c] = "waiting"]
          /\ UNCHANGED <<pClients, cClient>>
     ELSE /\ NewClient(c, FreeId)
          /\ UNCHANGED pQueue

\* pool._pulseQueue(): the first pending caller gets an idle client, or a
\* new one while the pool is not full.
PulseQueue ==
  /\ pQueue # <<>>
  /\ IF IdleClients # {}
     THEN \E i \in IdleClients : Checkout(Head(pQueue), i)
     ELSE /\ ~IsFull(Cardinality(Live), PoolMax)
          /\ NewClient(Head(pQueue), FreeId)
  /\ pQueue' = Tail(pQueue)
  /\ UNCHANGED cResult

\* The new client's connection is established, or fails (unreachable, or
\* connectionTimeoutMillis passed) and the client leaves the pool.
ConnectDone(c, ok) ==
  /\ cPc[c] = "connecting"
  /\ IF ok
     THEN /\ Checkout(c, cClient[c])
          /\ UNCHANGED cResult
     ELSE /\ pClients' = [pClients EXCEPT ![cClient[c]] = AbsentClient]
          /\ cPc' = [cPc EXCEPT ![c] = "idle"]
          /\ cClient' = [cClient EXCEPT ![c] = 0]
          /\ cResult' = DriverError(c, "connect failed")
  /\ UNCHANGED pQueue

\* connectionTimeoutMillis passes for a queued caller: it leaves the queue
\* and its connect() rejects.
AcquireTimeout(c) ==
  /\ cPc[c] = "waiting"
  /\ pQueue' = SelectSeq(pQueue, LAMBDA x : x # c)
  /\ cPc' = [cPc EXCEPT ![c] = "idle"]
  /\ cResult' = DriverError(c, ConnectTimeout)
  /\ UNCHANGED <<pClients, cClient>>

\* client.release(err), by the operation `op` that holds the client:
\* pool.query releases after its statement (with the
\* statement's error), transaction() in finally (without), a getClient()
\* caller when it chooses.  A released client is removed when an error is
\* passed, its connection is lost or it has been checked out maxUses times,
\* and kept idle otherwise.
Release(c, op, end) ==
  /\ cPc[c] = "holding"
  /\ LET i == cClient[c]
         destroy == \/ end = "lost"
                    \/ end = "error" /\ op # "transaction"
                    \/ RetiresAfter(pClients[i].uses, MaxUses)
     IN pClients' = [pClients EXCEPT ![i] =
                       IF destroy THEN AbsentClient ELSE [@ EXCEPT !.state = "idle"]]
  /\ cPc' = [cPc EXCEPT ![c] = "idle"]
  /\ cClient' = [cClient EXCEPT ![c] = 0]
  /\ cResult' = IF end = "ok" THEN Fulfilled(c) ELSE DriverError(c, "statement failed")
  /\ UNCHANGED pQueue

\* idleTimeoutMillis passes for an idle client: it is removed.
IdleTimeout(i) ==
  /\ pClients[i].state = "idle"
  /\ pClients' = [pClients EXCEPT ![i] = AbsentClient]
  /\ UNCHANGED <<pQueue, cPc, cClient, cResult>>

\* ========================================================= repository reads
\* The read functions of queries.js build a statement text and a values
\* array and hand both to query().  A statement text is a sequence of
\* tokens: the literal pieces of the template, the placeholders $n, and the
\* values the template interpolates with ${...}.  For the reads with a time
\* window the clock counts hours.

VARIABLES
  rdCall,     \* the last read: its name and the caller's arguments
  rdSql,      \* the statement text it passed to query()
  rdValues,   \* the values array it passed to query()
  rdResult    \* what it returned, or that it rejected

readVars == <<rdCall, rdSql, rdValues, rdResult>>

Lit(s) == [lit |-> s, param |-> 0, embedded |-> FALSE]
Param(n) == [lit |-> "$", param |-> n, embedded |-> FALSE]

\* JavaScript values a caller can pass for a number: undefined, a number, or
\* a string (as a request parameter arrives).
JsUndefined == [t |-> "undefined", n |-> 0, s |-> ""]
JsNumber(n) == [t |-> "number", n |-> n, s |-> ""]
JsText(s) == [t |-> "string", n |-> 0, s |-> s]

\* `${x}` in a template literal: String(x).
JsString(x) ==
  CASE x.t = "number" -> ToString(x.n)
    [] x.t = "string" -> x.s
    [] OTHER -> "undefined"

Embedded(x) == [lit |-> JsString(x), param |-> 0, embedded |-> TRUE]

\* The truthiness `if (x)` and `x ? a : b` test.
Truthy(x) ==
  CASE x.t = "number" -> x.n # 0
    [] x.t = "string" -> x.s # ""
    [] OTHER -> FALSE

\* A default parameter value (hours = 24) applies to undefined only.
JsDefault(x, d) == IF x.t = "undefined" THEN d ELSE x

\* filters.status, .severity, .type: strings ("" is a string, NullStr is an
\* absent property); filters.since, .limit: numbers (Null is absent or 0).
TruthyStr(s) == s # NullStr /\ s # ""
TruthyNum(n) == n # Null

NoRead == [kind |-> "none", rows |-> <<>>]
Rows(rows) == [kind |-> "rows", rows |-> rows]
FirstRow(rows) == IF rows = <<>> THEN [kind |-> "undefined", rows |-> <<>>]
                  ELSE [kind |-> "row", rows |-> <<rows[1]>>]
RejectedRead == [kind |-> "rejected", rows |-> <<>>]

ReadInit ==
  /\ rdCall = [fn |-> "none"]
  /\ rdSql = <<>>
  /\ rdValues = <<>>
  /\ rdResult = NoRead

\* ---- getAnomalies(filters)

\* if (filters.x) { sql += ` AND col = $${paramCount}`; values.push(filters.x);
\*                  paramCount++; }
AppendFilter(b, present, lit, v) ==
  IF present
  THEN [sql |-> b.sql \o <<Lit(lit), Param(b.paramCount)>>,
        values |-> Append(b.values, v),
        paramCount |-> b.paramCount + 1]
  ELSE b

\* The statement and the values array getAnomalies builds.
AnomaliesQuery(filters) ==
  LET b0 == [sql |-> <<Lit("SELECT * FROM anomalies WHERE 1=1")>>,
             values |-> <<>>, paramCount |-> 1]
      b1 == AppendFilter(b0, TruthyStr(filters.status), " AND status = ", filters.status)
      b2 == AppendFilter(b1, TruthyStr(filters.severity), " AND severity = ", filters.severity)
      b3 == AppendFilter(b2, TruthyStr(filters.type), " AND anomaly_type = ", filters.type)
      b4 == AppendFilter(b3, TruthyNum(filters.since), " AND detected_at >= ", filters.since)
      b5 == [b4 EXCEPT !.sql = @ \o <<Lit(" ORDER BY detected_at DESC")>>]
  IN IF TruthyNum(filters.limit)
     THEN [sql |-> b5.sql \o <<Lit(" LIMIT "), Param(b5.paramCount)>>,
           values |-> Append(b5.values, filters.limit)]
     ELSE [sql |-> b5.sql, values |-> b5.values]

\* The database's reading of the statement: row r satisfies the conjunct
\* `lit $n` with the value bound to $n.
Satisfies(r, lit, v) ==
  CASE lit = " AND status = " -> r.status = v
    [] lit = " AND severity = " -> r.severity = v
    [] lit = " AND anomaly_type = " -> r.anomaly_type = v
    [] lit = " AND detected_at >= " -> r.detected_at >= v
    [] OTHER -> TRUE

Selected(table, sql, values) ==
  {r \in table :
     \A i \in 1..(Len(sql) - 1) :
       (sql[i + 1].param # 0 /\ sql[i + 1].param <= Len(values))
         => Satisfies(r, sql[i].lit, values[sql[i + 1].param])}

\* LIMIT $n of the statement: the bound value, or none.
LimitOf(sql, values) ==
  IF \E i \in 1..(Len(sql) - 1) : sql[i].lit = " LIMIT " /\ sql[i + 1].param # 0
  THEN values[sql[Len(sql)].param]
  ELSE Null

Take(rows, n) == IF n = Null \/ n >= Len(rows) THEN rows ELSE SubSeq(rows, 1, n)

\* ORDER BY detected_at DESC: every order it allows for the rows S.
RECURSIVE ByDetectedDesc(_)
ByDetectedDesc(S) ==
  IF S = {} THEN {<<>>}
  ELSE UNION {{<<r>> \o t : t \in ByDetectedDesc(S \ {r})} :
                r \in {m \in S : \A q \in S : q.detected_at <= m.detected_at}}

getAnomalies(filters, ok) ==
  LET q == AnomaliesQuery(filters) IN
  /\ rdCall' = [fn |-> "getAnomalies", filters |-> filters]
  /\ rdSql' = q.sql
  /\ rdValues' = q.values
  /\ IF ok
     THEN \E rows \in ByDetectedDesc(Selected(anomalies, q.sql, q.values)) :
            rdResult' = Rows(Take(rows, LimitOf(q.sql, q.values)))
     ELSE rdResult' = RejectedRead
  /\ UNCHANGED <<repoVars, anomVars>>

\* ---- getLatestMetrics()

\* The columns the view latest_metrics selects.
LatestColumns(r) ==
  [timestamp |-> r.timestamp, tvl_usd |-> r.tvl_usd, tvl_eth |-> r.tvl_eth,
   unique_stakers |-> r.unique_stakers,
   withdrawal_queue_size |-> r.withdrawal_queue_size,
   eeth_eth_price_ratio |-> r.eeth_eth_price_ratio,
   peg_deviation_percent |-> r.peg_deviation_percent,
   total_volume_eth_24h |-> r.total_volume_eth_24h,
   avg_gas_price_gwei |-> r.avg_gas_price_gwei]

\* A mutant of latest_metrics: ORDER BY timestamp (ascending) LIMIT 1.
LatestOldestFirst(table) ==
  IF table = {} THEN {<<>>}
  ELSE {<<LatestColumns(r)>> : r \in {m \in table : \A q \in table : q.timestamp >= m.timestamp}}

\* The view latest_metrics: ORDER BY timestamp DESC LIMIT 1 (timestamp is
\* unique, so the order is total).
latest_metrics(table) ==
  IF table = {} THEN {<<>>}
  ELSE {<<LatestColumns(r)>> : r \in {m \in table : \A q \in table : q.timestamp <= m.timestamp}}

\* query('SELECT * FROM latest_metrics'), then result.rows[0].
getLatestMetrics(ok) ==
  /\ rdCall' = [fn |-> "getLatestMetrics"]
  /\ rdSql' = <<Lit("SELECT * FROM latest_metrics")>>
  /\ rdValues' = <<>>
  /\ IF ok
     THEN \E rows \in latest_metrics(time_series_data) : rdResult' = FirstRow(rows)
     ELSE rdResult' = RejectedRead
  /\ UNCHANGED <<repoVars, anomVars>>

\* ---- the reads with a time window

\* The statement of getTimeSeriesData(hours, limit).
TimeSeriesQuery(hours, limit) ==
  <<Lit("SELECT * FROM time_series_data WHERE timestamp >= NOW() - INTERVAL '"),
    Embedded(hours),
    Lit(" hours' ORDER BY timestamp DESC ")>>
  \o (IF Truthy(limit) THEN <<Lit("LIMIT "), Embedded(limit)>> ELSE <<Lit("")>>)

\* The statement of getBaselineStats(days).
BaselineQuery(days) ==
  <<Lit("SELECT AVG(tvl_usd) ..., COUNT(*) as data_points FROM time_series_data WHERE timestamp >= NOW() - INTERVAL '"),
    Embedded(days),
    Lit(" days' AND collection_status = 'success'")>>

\* The statement of getSentimentStats(hours).
SentimentQuery(hours) ==
  <<Lit("SELECT AVG(sentiment_score) ..., SUM(like_count) as total_likes FROM twitter_sentiment WHERE timestamp >= NOW() - INTERVAL '"),
    Embedded(hours),
    Lit(" hours'")>>

\* An interpolated value leaves the statement the template's own when its
\* text is that of a whole number: a number, or a string that spells one.
Spelled == {ToString(n) : n \in 0..30}
IsCount(x) == (x.t = "number" /\ x.n >= 0) \/ (x.t = "string" /\ x.s \in Spelled)
AsCount(x) == IF x.t = "number" THEN x.n ELSE CHOOSE n \in 0..30 : ToString(n) = x.s

\* timestamp >= NOW() - INTERVAL 'n units'
Within(table, clock, n) == {r \in table : r.timestamp >= clock - n}

\* ORDER BY timestamp DESC: the order is total (timestamp is unique).
RECURSIVE ByTimestampDesc(_)
ByTimestampDesc(S) ==
  IF S = {} THEN <<>>
  ELSE LET r == CHOOSE m \in S : \A q \in S : q.timestamp <= m.timestamp
       IN <<r>> \o ByTimestampDesc(S \ {r})

\* The one row of an aggregate query over the rows S: the count and the
\* bounds of the period; the averages and deviations are those of S.
Aggregate(S) ==
  [over |-> S, data_points |-> Cardinality(S),
   period_start |-> IF S = {} THEN Null ELSE CHOOSE t \in {r.timestamp : r \in S} : \A r \in S : t <= r.timestamp,
   period_end |-> IF S = {} THEN Null ELSE CHOOSE t \in {r.timestamp : r \in S} : \A r \in S : t >= r.timestamp]

\* What the database does with a statement that is not the template's: it
\* rejects it, or it runs whatever the text now says.
ForeignStatement == [kind |-> "foreign", rows |-> <<>>]

getTimeSeriesData(hours0, limit, ok) ==
  LET hours == JsDefault(hours0, JsNumber(24))
      sql == TimeSeriesQuery(hours, limit)
  IN /\ rdCall' = [fn |-> "getTimeSeriesData", hours |-> hours0, limit |-> limit]
     /\ rdSql' = sql
     /\ rdValues' = <<>>
     /\ IF ~ok \/ (limit.t = "number" /\ limit.n < 0)   \* LIMIT must not be negative
        THEN rdResult' = RejectedRead
        ELSE IF IsCount(hours) /\ (Truthy(limit) => IsCount(limit))
        THEN rdResult' = Rows(Take(ByTimestampDesc(Within(time_series_data, now, AsCount(hours))),
                                   IF Truthy(limit) THEN AsCount(limit) ELSE Null))
        ELSE rdResult' \in {RejectedRead, ForeignStatement}
     /\ UNCHANGED <<repoVars, anomVars>>

getBaselineStats(days0, ok) ==
  LET days == JsDefault(days0, JsNumber(30))
      sql == BaselineQuery(days)
  IN /\ rdCall' = [fn |-> "getBaselineStats", days |-> days0]
     /\ rdSql' = sql
     /\ rdValues' = <<>>
     /\ IF ~ok THEN rdResult' = RejectedRead
        ELSE IF IsCount(days)
        THEN rdResult' = FirstRow(<<Aggregate({r \in Within(time_series_data, now, AsCount(days) * 24) :
                                                 r.collection_status = "success"})>>)
        ELSE rdResult' \in {RejectedRead, ForeignStatement}
     /\ UNCHANGED <<repoVars, anomVars>>

getSentimentStats(hours0, ok) ==
  LET hours == JsDefault(hours0, JsNumber(24))
      sql == SentimentQuery(hours)
  IN /\ rdCall' = [fn |-> "getSentimentStats", hours |-> hours0]
     /\ rdSql' = sql
     /\ rdValues' = <<>>
     /\ IF ~ok THEN rdResult' = RejectedRead
        ELSE IF IsCount(hours)
        THEN rdResult' = FirstRow(<<Aggregate(Within(twitter_sentiment, now, AsCount(hours)))>>)
        ELSE rdResult' \in {RejectedRead, ForeignStatement}
     /\ UNCHANGED <<repoVars, anomVars>>


\* ============================================================ query executor
\* query(text, params): one pool.query, timed with Date.now().  A statement
\* text is here the sequence of its characters.

SlowQueryMs == 1000     \* if (duration > 1000)
LeadingChars == 100     \* text.substring(0, 100)

VARIABLES
  qCall,      \* the last call: text, params, what pool.query did and the
              \* duration query() measured
  qSettled,   \* how its promise settled: the value returned or thrown
  qLog        \* what it wrote to the console

execVars == <<qCall, qSettled, qLog>>

\* A statement text of n characters.
Text(n) == [i \in 1..n |-> i]

\* text.substring(0, n)
Substring(text, n) == IF Len(text) <= n THEN text ELSE SubSeq(text, 1, n)

\* What pool.query can do: resolve with a result, or reject with an error of
\* the driver (a DatabaseError named 'error' from the server, a plain Error
\* from the pool).  Neither error has a statement or a params property.
PoolResult(rowCount) == [ok |-> TRUE, rowCount |-> rowCount]
PoolError(name, message) ==
  [ok |-> FALSE, name |-> name, message |-> message,
   statement |-> <<>>, params |-> <<>>]
PoolOutcomes ==
  {PoolResult(0), PoolResult(1),
   PoolError("error", "syntax error"), PoolError("Error", "timeout exceeded when trying to connect")}

IsSlowInclusive(duration) == duration >= SlowQueryMs

\* if (duration > 1000)
IsSlow(duration) == duration > SlowQueryMs

ExecInit ==
  /\ qCall = [text |-> <<>>, params |-> <<>>, made |-> FALSE]
  /\ qSettled = [kind |-> "none"]
  /\ qLog = <<>>

query(text, params, outcome, duration) ==
  /\ qCall' = [text |-> text, params |-> params, made |-> TRUE,
               outcome |-> outcome, duration |-> duration]
  /\ IF outcome.ok
     THEN /\ qLog' = IF IsSlow(duration)
                     THEN <<[level |-> "warn", what |-> "[DB] Slow query detected",
                             duration |-> duration, text |-> Substring(text, LeadingChars)]>>
                     ELSE <<>>
          /\ qSettled' = [kind |-> "returned", value |-> outcome]
     ELSE /\ qLog' = <<[level |-> "error", what |-> "[DB] Query error:", arg |-> outcome.message],
                       [level |-> "error", what |-> "[DB] Query text:", arg |-> text],
                       [level |-> "error", what |-> "[DB] Query params:", arg |-> params]>>
          /\ qSettled' = [kind |-> "thrown", value |-> outcome]

\* ================================================================ the process
\* A Node process that has loaded db-connection.js: the pool's 'error'
\* handler, closePool, the SIGINT and SIGTERM handlers, and main() of the two
\* scripts init-schema.js and test-connection.js.

MaxSignals == 2     \* signals delivered to one process

Programs == {"init-schema", "test-connection"}
SignalNames == {"SIGINT", "SIGTERM"}

VARIABLES
  program,     \* the script that was started
  unhandled,   \* what this Node does with an unhandled rejection: "throw"
               \* (the default since v15) or "warn" (v12 to v14)
  proc,        \* running, or exited with a code, and by which call
  mainPc,      \* the await main() is at
  poolEnd,     \* pool.end(): "open" (not called), "ending", "ended"
  endWaiter,   \* whose closePool() awaits the first pool.end()
  signals,     \* the signals received, in order
  idleClient,  \* a connected client sits idle in the pool
  served,      \* statements the pool has run
  idleErrors,  \* 'error' events the pool has emitted for idle clients
  \* History variables
  probe,       \* the last testConnection() or healthCheck(): what its query
               \* did and how the probe settled
  schemaRun,   \* the last initializeSchema(): whether its query succeeded,
               \* how it settled, and the tables it found
  reported     \* init-schema.js has printed its success messages

procVars == <<program, unhandled, proc, mainPc, poolEnd, endWaiter, signals,
              idleClient, served, idleErrors, probe, schemaRun, reported>>

Running == proc.state = "running"

\* process.exit(code)
Exited(code, by) == [state |-> "exited", code |-> code, by |-> by]

\* The process after db-connection.js was loaded and before main() runs.
ProcStart(prog, mode) ==
  /\ program = prog
  /\ unhandled = mode
  /\ proc = [state |-> "running", code |-> Null, by |-> "none"]
  /\ mainPc = "testConnection"
  /\ poolEnd = "open"
  /\ endWaiter = "none"
  /\ signals = <<>>
  /\ idleClient = FALSE
  /\ served = 0
  /\ idleErrors = 0
  /\ probe = [fn |-> "none"]
  /\ schemaRun = [state |-> "none"]
  /\ reported = FALSE

\* One of the two scripts is started, on either kind of Node.
ProcInit == \E prog \in Programs, mode \in {"throw", "warn"} : ProcStart(prog, mode)

\* A process that runs neither script.
NoScript == ProcStart("none", "throw")

\* A mutant of OnIdleError: the handler only logs.
OnIdleErrorLogOnly(p) == p

\* pool.on('error', ...): console.error, then process.exit(-1).
OnIdleError(p) == Exited(-1, "idle-error")

\* A promise nobody handles was rejected: the process dies of the uncaught
\* error with code 1, or prints a warning and goes on.
OnUnhandledRejection(p, who) ==
  IF unhandled = "throw" THEN Exited(1, who) ELSE p

\* pool.query on this pool: a pool on which end() was called rejects every
\* query; otherwise the statement runs, and a statement that succeeded
\* leaves its client idle in the pool.
Accepted == poolEnd = "open"

PoolQuery(ok) ==
  /\ served' = IF Accepted THEN served + 1 ELSE served
  /\ idleClient' = (idleClient \/ (Accepted /\ ok))

\* What query() settles with on this pool.
QueryOutcome(ok) ==
  IF ~Accepted THEN PoolError("Error", "Cannot use a pool after calling end on the pool")
  ELSE IF ok THEN PoolResult(1)
  ELSE PoolError("Error", "connect ECONNREFUSED")

\* A mutant of testConnection: the error of the probe query is rethrown.
testConnectionRethrows(outcome) ==
  IF outcome.ok THEN [kind |-> "returned", value |-> TRUE]
  ELSE [kind |-> "rejected", value |-> outcome.message]

\* testConnection(): try { await query(...); return true; }
\* catch (error) { return false; }
testConnection(outcome) ==
  IF outcome.ok THEN [kind |-> "returned", value |-> TRUE]
  ELSE [kind |-> "returned", value |-> FALSE]

\* pool.totalCount, pool.idleCount, pool.waitingCount
PoolStats ==
  [total |-> IF idleClient THEN 1 ELSE 0, idle |-> IF idleClient THEN 1 ELSE 0,
   waiting |-> 0]

\* The row of healthCheck's query: three counts and MAX(timestamp), NULL on
\* the empty table.
HealthData ==
  [time_series_count |-> Cardinality(time_series_data),
   whale_count |-> Cardinality(whale_wallets),
   active_anomalies |-> Cardinality({r \in anomalies : r.status = "active"}),
   last_collection |->
     IF time_series_data = {} THEN Null
     ELSE (CHOOSE m \in time_series_data :
             \A q \in time_series_data : q.timestamp <= m.timestamp).timestamp]

\* healthCheck(): the status object of the try block, or of the catch block.
healthCheck(outcome) ==
  IF outcome.ok
  THEN [kind |-> "returned",
        value |-> [status |-> "healthy", pool |-> PoolStats, data |-> HealthData,
                   timestamp |-> now]]
  ELSE [kind |-> "returned",
        value |-> [status |-> "unhealthy", error |-> outcome.message,
                   timestamp |-> now]]

\* catch (error) { ...; process.exit(1); } of both scripts: the process is
\* gone before the finally block is entered.
MainCatch ==
  /\ proc' = Exited(1, "catch")
  /\ mainPc' = "catch"

\* const connected = await testConnection();
TestConnectionStep(ok) ==
  /\ Running /\ mainPc = "testConnection"
  /\ PoolQuery(ok)
  /\ LET connected == testConnection(QueryOutcome(ok)) IN
     /\ probe' = [fn |-> "testConnection", query |-> QueryOutcome(ok), settled |-> connected]
     /\ IF connected.kind = "returned" /\ connected.value
        THEN /\ mainPc' = IF program = "init-schema" THEN "initializeSchema" ELSE "healthCheck"
             /\ UNCHANGED proc
        ELSE IF connected.kind = "returned" /\ program = "init-schema"
             THEN \* if (!connected) { ...; process.exit(1); }
                  /\ proc' = Exited(1, "not-connected")
                  /\ mainPc' = "not-connected"
             ELSE \* throw new Error('Database connection failed')
                  MainCatch
  /\ UNCHANGED <<schemaRun, reported, program, unhandled, poolEnd, endWaiter, signals, idleErrors>>

\* schema.sql runs as one statement: the five tables are dropped and created
\* anew, and the placeholder row is inserted with NOW().  Two mutants
\* first: a schema that keeps existing tables, and an initializeSchema that
\* swallows the error.
initializeSchemaKeepsRows(ok) ==
  IF ok
  THEN /\ schemaRun' = [state |-> "resolved", query |-> ok, before |-> Tables]
       /\ time_series_data' =
            IF \E r \in time_series_data : r.timestamp = now THEN time_series_data
            ELSE time_series_data \cup {[InitialPlaceholder EXCEPT !.timestamp = now, !.id = ts_seq]}
       /\ ts_seq' = ts_seq + 1
       /\ UNCHANGED <<whale_wallets, twitter_sentiment, anomVars, retVars>>
       /\ UNCHANGED <<now, calls, whale_seq, tw_seq, tsHist, whHist, twHist>>
  ELSE /\ schemaRun' = [state |-> "rejected", query |-> ok, before |-> Tables]
       /\ UNCHANGED <<repoVars, anomVars, retVars>>

initializeSchemaSwallows(ok) ==
  IF ok
  THEN /\ schemaRun' = [state |-> "resolved", query |-> ok, before |-> Tables]
       /\ time_series_data' = {[InitialPlaceholder EXCEPT !.timestamp = now]}
       /\ whale_wallets' = {}
       /\ twitter_sentiment' = {}
       /\ anomalies' = {}
       /\ validator_metrics' = {}
       /\ ts_seq' = 2 /\ whale_seq' = 1 /\ tw_seq' = 1 /\ anom_seq' = 1 /\ vm_seq' = 1
       /\ tsHist' = [t \in Times |-> <<>>]
       /\ whHist' = [a \in Addresses |-> <<>>]
       /\ twHist' = [t \in TweetIds |-> <<>>]
       /\ anInserted' = [i \in AnomalyIds |-> <<>>]
       /\ anViews' = [i \in AnomalyIds |-> [n |-> 0, at |-> Null]]
       /\ anListing' = NoListing
       /\ UNCHANGED <<now, calls, clPc, clNow, clDeleted, clRun, cleanAt>>
  ELSE /\ schemaRun' = [state |-> "resolved", query |-> ok, before |-> Tables]
       /\ UNCHANGED <<repoVars, anomVars, retVars>>

\* initializeSchema(): await query(schemaSql); return true; the catch block
\* logs and rethrows.
initializeSchema(ok) ==
  IF ok
  THEN /\ schemaRun' = [state |-> "resolved", query |-> ok, before |-> Tables]
       /\ time_series_data' = {[InitialPlaceholder EXCEPT !.timestamp = now]}
       /\ whale_wallets' = {}
       /\ twitter_sentiment' = {}
       /\ anomalies' = {}
       /\ validator_metrics' = {}
       /\ ts_seq' = 2 /\ whale_seq' = 1 /\ tw_seq' = 1 /\ anom_seq' = 1 /\ vm_seq' = 1
       /\ tsHist' = [t \in Times |-> <<>>]
       /\ whHist' = [a \in Addresses |-> <<>>]
       /\ twHist' = [t \in TweetIds |-> <<>>]
       /\ anInserted' = [i \in AnomalyIds |-> <<>>]
       /\ anViews' = [i \in AnomalyIds |-> [n |-> 0, at |-> Null]]
       /\ anListing' = NoListing
       /\ UNCHANGED <<now, calls, clPc, clNow, clDeleted, clRun, cleanAt>>
  ELSE /\ schemaRun' = [state |-> "rejected", query |-> ok, before |-> Tables]
       /\ UNCHANGED <<repoVars, anomVars, retVars>>

\* await initializeSchema();
InitializeSchemaStep(ok) ==
  /\ Running /\ mainPc = "initializeSchema"
  /\ PoolQuery(ok)
  /\ initializeSchema(ok /\ Accepted)
  /\ IF schemaRun'.state = "resolved"
     THEN \* console.log('... initialized successfully'), '... completed successfully!'
          /\ reported' = TRUE
          /\ mainPc' = "finally"
          /\ UNCHANGED proc
     ELSE /\ UNCHANGED reported
          /\ MainCatch
  /\ UNCHANGED <<probe, program, unhandled, poolEnd, endWaiter, signals, idleErrors>>

\* const health = await healthCheck();  healthCheck catches its own error.
HealthCheckStep(ok) ==
  /\ Running /\ mainPc = "healthCheck"
  /\ PoolQuery(ok)
  /\ LET health == healthCheck(QueryOutcome(ok)) IN
     /\ probe' = [fn |-> "healthCheck", query |-> QueryOutcome(ok), settled |-> health]
     /\ IF health.kind = "returned"
        THEN mainPc' = "getDatabaseStats" /\ UNCHANGED proc
        ELSE MainCatch
  /\ UNCHANGED <<schemaRun, reported, program, unhandled, poolEnd, endWaiter, signals, idleErrors>>

\* const stats = await getDatabaseStats();
DatabaseStatsStep(ok) ==
  /\ Running /\ mainPc = "getDatabaseStats"
  /\ PoolQuery(ok)
  /\ IF ok /\ Accepted
     THEN mainPc' = "insertTimeSeriesData" /\ UNCHANGED proc
     ELSE MainCatch
  /\ UNCHANGED <<probe, schemaRun, reported, program, unhandled, poolEnd, endWaiter, signals, idleErrors>>

\* testData of test-connection.js
TestData ==
  [TsData(now, Null, FALSE)
     EXCEPT !.tvl_usd = 1000000, !.tvl_eth = 500, !.unique_stakers = 100,
            !.deposit_count_24h = 10, !.withdrawal_count_24h = 5,
            !.collection_status = "test"]

\* const inserted = await insertTimeSeriesData(testData);
InsertTestDataStep(ok) ==
  /\ Running /\ mainPc = "insertTimeSeriesData"
  /\ PoolQuery(ok)
  /\ insertTimeSeriesData(TestData, ok /\ Accepted)
  /\ IF ok /\ Accepted
     THEN mainPc' = "getLatestMetrics" /\ UNCHANGED proc
     ELSE MainCatch
  /\ UNCHANGED <<probe, schemaRun, reported, program, unhandled, poolEnd, endWaiter, signals, idleErrors>>

\* const latest = await getLatestMetrics();
LatestMetricsStep(ok) ==
  /\ Running /\ mainPc = "getLatestMetrics"
  /\ PoolQuery(ok)
  /\ getLatestMetrics(ok /\ Accepted)
  /\ IF ok /\ Accepted
     THEN mainPc' = "cleanup" /\ UNCHANGED proc
     ELSE MainCatch
  /\ UNCHANGED <<probe, schemaRun, reported, program, unhandled, poolEnd, endWaiter, signals, idleErrors>>

\* await query("DELETE FROM time_series_data WHERE collection_status = 'test'");
CleanupTestDataStep(ok) ==
  /\ Running /\ mainPc = "cleanup"
  /\ PoolQuery(ok)
  /\ IF ok /\ Accepted
     THEN /\ time_series_data' = {r \in time_series_data : r.collection_status # "test"}
          /\ mainPc' = "finally" /\ UNCHANGED proc
     ELSE /\ UNCHANGED time_series_data
          /\ MainCatch
  /\ UNCHANGED <<now, calls, whale_wallets, twitter_sentiment,
                 ts_seq, whale_seq, tw_seq, tsHist, whHist, twHist>>
  /\ UNCHANGED <<probe, schemaRun, reported, program, unhandled, poolEnd, endWaiter, signals, idleErrors>>

\* finally { await closePool(); }  reached when the try block completed.  A
\* second pool.end() rejects ('Called end on pool more than once'), closePool
\* rethrows, and nothing handles the promise of main().
FinallyClosePool ==
  /\ Running /\ mainPc = "finally"
  /\ IF poolEnd = "open"
     THEN /\ poolEnd' = "ending"
          /\ endWaiter' = "main"
          /\ mainPc' = "closing"
          /\ UNCHANGED proc
     ELSE /\ mainPc' = "rejected"
          /\ proc' = OnUnhandledRejection(proc, "main-rejected")
          /\ UNCHANGED <<poolEnd, endWaiter>>
  /\ UNCHANGED <<probe, schemaRun, reported, program, unhandled, signals, idleClient, served, idleErrors>>

\* process.on('SIGINT' / 'SIGTERM', async () => { await closePool();
\* process.exit(0); }): the handler whose pool.end() is the first one waits
\* for it; in any later one closePool() throws and the handler's promise is
\* rejected with nothing to handle it.
Signal(s) ==
  /\ Running
  /\ Len(signals) < MaxSignals
  /\ signals' = Append(signals, s)
  /\ IF poolEnd = "open"
     THEN /\ poolEnd' = "ending"
          /\ endWaiter' = "handler"
          /\ UNCHANGED proc
     ELSE /\ proc' = OnUnhandledRejection(proc, "handler-rejected")
          /\ UNCHANGED <<poolEnd, endWaiter>>
  /\ UNCHANGED <<probe, schemaRun, reported, program, unhandled, mainPc, idleClient, served, idleErrors>>

\* The first pool.end() resolves once the clients are closed; the closePool()
\* that awaits it returns, to the signal handler (process.exit(0)) or to main.
EndCompletes ==
  /\ Running /\ poolEnd = "ending"
  /\ poolEnd' = "ended"
  /\ idleClient' = FALSE
  /\ endWaiter' = "none"
  /\ IF endWaiter = "handler"
     THEN proc' = Exited(0, "signal") /\ UNCHANGED mainPc
     ELSE mainPc' = "returned" /\ UNCHANGED proc
  /\ UNCHANGED <<probe, schemaRun, reported, program, unhandled, signals, served, idleErrors>>

\* Nothing is left to run and no socket is open: Node exits by itself.
Drained ==
  /\ Running
  /\ mainPc \in {"returned", "rejected"}
  /\ poolEnd # "ending"
  /\ ~idleClient
  /\ proc' = Exited(0, "drained")
  /\ UNCHANGED <<probe, schemaRun, reported, program, unhandled, mainPc, poolEnd, endWaiter, signals,
                 idleClient, served, idleErrors>>

\* idleTimeoutMillis: the pool closes a client that stayed idle.
IdleClientTimeout ==
  /\ Running /\ idleClient /\ poolEnd = "open"
  /\ idleClient' = FALSE
  /\ UNCHANGED <<probe, schemaRun, reported, program, unhandled, proc, mainPc, poolEnd, endWaiter, signals,
                 served, idleErrors>>

\* The pool emits 'error' for an idle client (the server closed its
\* connection) and drops the client.
IdleClientError ==
  /\ Running /\ idleClient /\ poolEnd = "open"
  /\ idleErrors' = idleErrors + 1
  /\ idleClient' = FALSE
  /\ proc' = OnIdleError(proc)
  /\ UNCHANGED <<probe, schemaRun, reported, program, unhandled, mainPc, poolEnd, endWaiter, signals, served>>

\* ========================================================== specifications
vars == <<repoVars, txVars, retryVars, poolVars, anomVars, retVars, raceVars, readVars, vmVars, execVars, procVars>>

Init == RepoInit /\ TxInit /\ RetryInit /\ PoolInit /\ AnomInit /\ RetInit /\ RaceInit /\ ReadInit /\ VmInit /\ ExecInit /\ NoScript

TimeSeriesNext ==
  \/ Tick /\ UNCHANGED <<txVars, retryVars, poolVars, anomVars, retVars, raceVars, readVars, vmVars, execVars, procVars>>
  \/ \E T \in Times \cup {Null}, p \in Vals, opt \in BOOLEAN, ok \in BOOLEAN :
       insertTimeSeriesData(TsData(T, p, opt), ok) /\ UNCHANGED <<txVars, retryVars, poolVars, anomVars, retVars, raceVars, readVars, vmVars, execVars, procVars>>

WhaleNext ==
  \/ Tick /\ UNCHANGED <<txVars, retryVars, poolVars, anomVars, retVars, raceVars, readVars, vmVars, execVars, procVars>>
  \/ \E a \in Addresses \cup {NullStr}, p \in Vals, opt \in BOOLEAN, ok \in BOOLEAN :
       upsertWhaleWallet(WhData(a, p, opt), ok) /\ UNCHANGED <<txVars, retryVars, poolVars, anomVars, retVars, raceVars, readVars, vmVars, execVars, procVars>>

SentimentNext ==
  \/ Tick /\ UNCHANGED <<txVars, retryVars, poolVars, anomVars, retVars, raceVars, readVars, vmVars, execVars, procVars>>
  \/ \E t \in TweetIds \cup {NullStr}, T \in {now, Null}, p \in Vals, ok \in BOOLEAN :
       insertTwitterSentiment(TwData(t, T, p), ok) /\ UNCHANGED <<txVars, retryVars, poolVars, anomVars, retVars, raceVars, readVars, vmVars, execVars, procVars>>

TxNext ==
  \/ TxCall /\ UNCHANGED <<repoVars, retryVars, poolVars, anomVars, retVars, raceVars, readVars, vmVars, execVars, procVars>>
  \/ \E ok \in BOOLEAN : GetClient(ok) /\ UNCHANGED <<repoVars, retryVars, poolVars, anomVars, retVars, raceVars, readVars, vmVars, execVars, procVars>>
  \/ \E o \in QueryOutcomes : Begin(o) /\ UNCHANGED <<repoVars, retryVars, poolVars, anomVars, retVars, raceVars, readVars, vmVars, execVars, procVars>>
  \/ \E o \in QueryOutcomes : Callback(o) /\ UNCHANGED <<repoVars, retryVars, poolVars, anomVars, retVars, raceVars, readVars, vmVars, execVars, procVars>>
  \/ \E o \in QueryOutcomes : Commit(o) /\ UNCHANGED <<repoVars, retryVars, poolVars, anomVars, retVars, raceVars, readVars, vmVars, execVars, procVars>>
  \/ \E o \in QueryOutcomes : Rollback(o) /\ UNCHANGED <<repoVars, retryVars, poolVars, anomVars, retVars, raceVars, readVars, vmVars, execVars, procVars>>
  \/ Finally /\ UNCHANGED <<repoVars, retryVars, poolVars, anomVars, retVars, raceVars, readVars, vmVars, execVars, procVars>>
  \/ TxReturn /\ UNCHANGED <<repoVars, retryVars, poolVars, anomVars, retVars, raceVars, readVars, vmVars, execVars, procVars>>
  \/ PoolEvictIdle /\ UNCHANGED <<repoVars, retryVars, poolVars, anomVars, retVars, raceVars, readVars, vmVars, execVars, procVars>>

RetryNext ==
  \/ \E options \in RetryOptions : RetryCall(options) /\ UNCHANGED <<repoVars, txVars, poolVars, anomVars, retVars, raceVars, readVars, vmVars, execVars, procVars>>
  \/ \E result \in FnResults : FnReturns(result) /\ UNCHANGED <<repoVars, txVars, poolVars, anomVars, retVars, raceVars, readVars, vmVars, execVars, procVars>>
  \/ \E error \in FnErrors : FnThrows(error) /\ UNCHANGED <<repoVars, txVars, poolVars, anomVars, retVars, raceVars, readVars, vmVars, execVars, procVars>>
  \/ RetryWait /\ UNCHANGED <<repoVars, txVars, poolVars, anomVars, retVars, raceVars, readVars, vmVars, execVars, procVars>>
  \/ RetryExhausted /\ UNCHANGED <<repoVars, txVars, poolVars, anomVars, retVars, raceVars, readVars, vmVars, execVars, procVars>>

PoolNext ==
  \/ \E c \in Callers : Connect(c) /\ UNCHANGED <<repoVars, txVars, retryVars, anomVars, retVars, raceVars, readVars, vmVars, execVars, procVars>>
  \/ PulseQueue /\ UNCHANGED <<repoVars, txVars, retryVars, anomVars, retVars, raceVars, readVars, vmVars, execVars, procVars>>
  \/ \E c \in Callers, ok \in BOOLEAN : ConnectDone(c, ok) /\ UNCHANGED <<repoVars, txVars, retryVars, anomVars, retVars, raceVars, readVars, vmVars, execVars, procVars>>
  \/ \E c \in Callers : AcquireTimeout(c) /\ UNCHANGED <<repoVars, txVars, retryVars, anomVars, retVars, raceVars, readVars, vmVars, execVars, procVars>>
  \/ \E c \in Callers, op \in PoolOps, end \in {"ok", "error", "lost"} :
       Release(c, op, end) /\ UNCHANGED <<repoVars, txVars, retryVars, anomVars, retVars, raceVars, readVars, vmVars, execVars, procVars>>
  \/ \E i \in ClientIds : IdleTimeout(i) /\ UNCHANGED <<repoVars, txVars, retryVars, anomVars, retVars, raceVars, readVars, vmVars, execVars, procVars>>

\* Listing the active anomalies: inserts of every severity, active by default
\* or stored as resolved, at up to MaxAnomalies clock values.  Only inserts
\* read the clock, so it advances only past a value an insert has used.
ListingNext ==
  \/ /\ \E r \in anomalies : r.detected_at = now
     /\ Elapse(MaxAnomalies)
     /\ UNCHANGED <<anomVars, txVars, retryVars, poolVars, retVars, raceVars, readVars, vmVars, execVars, procVars>>
  \/ \E sev \in Severities, st \in {NullStr, "resolved"} :
       /\ anom_seq <= MaxAnomalies
       /\ st = "resolved" => sev = "CRITICAL"
       /\ insertAnomaly(AnData(sev, st, FALSE), TRUE)
       /\ UNCHANGED <<txVars, retryVars, poolVars, retVars, raceVars, readVars, vmVars, execVars, procVars>>
  \/ getActiveAnomalies(TRUE) /\ UNCHANGED <<txVars, retryVars, poolVars, retVars, raceVars, readVars, vmVars, execVars, procVars>>

\* Storing and viewing anomalies: any data.status and severity, also a
\* missing one; fewer than MaxCalls rows and at most MaxCalls views.
AnomalyNext ==
  \/ Tick /\ UNCHANGED <<anomVars, txVars, retryVars, poolVars, retVars, raceVars, readVars, vmVars, execVars, procVars>>
  \/ \E sev \in {"HIGH", NullStr},
        st \in {NullStr, "resolved", "false_positive", "archived"}, ok \in BOOLEAN :
       /\ anom_seq < MaxCalls
       /\ insertAnomaly(AnData(sev, st, TRUE), ok)
       /\ UNCHANGED <<txVars, retryVars, poolVars, retVars, raceVars, readVars, vmVars, execVars, procVars>>
  \/ \E id \in AnomalyIds, ok \in BOOLEAN :
       /\ AnViewsMade < MaxCalls
       /\ getAnomalyById(id, ok)
       /\ UNCHANGED <<txVars, retryVars, poolVars, retVars, raceVars, readVars, vmVars, execVars, procVars>>

\* Retention next to ingestion: fewer than MaxCalls - 1 writes of rows
\* stamped at and just past the window boundaries, and cleanupOldData
\* statement by statement.
RetentionNext ==
  \/ Tick /\ UNCHANGED <<anomVars, retVars, txVars, retryVars, poolVars, raceVars, readVars, vmVars, execVars, procVars>>
  \/ \E d \in {TimeSeriesRetentionDays + 1, TimeSeriesRetentionDays} :
       /\ calls + 1 < MaxCalls
       /\ NotLocked(clDeleted.ts, "timestamp", now - d)
       /\ insertTimeSeriesData(TsData(now - d, 1, FALSE), TRUE)
       /\ NotedWrite
       /\ UNCHANGED <<validator_metrics, vm_seq, clPc, clNow, clDeleted>>
       /\ UNCHANGED <<anomVars, txVars, retryVars, poolVars, raceVars, readVars, vmVars, execVars, procVars>>
  \/ \E d \in {ValidatorRetentionDays + 1, SentimentRetentionDays + 1} :
       /\ calls + 1 < MaxCalls
       /\ NotLocked(clDeleted.vm, "timestamp", now - d)
       /\ insertValidatorMetrics(VmData(now - d, 1), TRUE)
       /\ NotedWrite
       /\ UNCHANGED <<clPc, clNow, clDeleted>>
       /\ UNCHANGED <<anomVars, txVars, retryVars, poolVars, raceVars, readVars, execVars, procVars>>
  \/ \E d \in {SentimentRetentionDays + 1, SentimentRetentionDays} :
       /\ calls + 1 < MaxCalls
       /\ NotLocked(clDeleted.tw, "tweet_id", "t1")
       /\ insertTwitterSentiment(TwData("t1", now - d, 1), TRUE)
       /\ NotedWrite
       /\ UNCHANGED <<validator_metrics, vm_seq, clPc, clNow, clDeleted>>
       /\ UNCHANGED <<anomVars, txVars, retryVars, poolVars, raceVars, readVars, vmVars, execVars, procVars>>
  \/ /\ calls + 1 < MaxCalls
     /\ upsertWhaleWallet(WhData("0xA", 1, FALSE), TRUE)
     /\ NotedWrite
     /\ UNCHANGED <<validator_metrics, vm_seq, clPc, clNow, clDeleted>>
     /\ UNCHANGED <<anomVars, txVars, retryVars, poolVars, raceVars, readVars, vmVars, execVars, procVars>>
  \/ \E ok \in BOOLEAN : cleanupOldData(ok) /\ UNCHANGED <<txVars, retryVars, poolVars, raceVars, readVars, vmVars, execVars, procVars>>
  \/ DeleteTimeSeries /\ UNCHANGED <<txVars, retryVars, poolVars, raceVars, readVars, vmVars, execVars, procVars>>
  \/ DeleteSentiment /\ UNCHANGED <<txVars, retryVars, poolVars, raceVars, readVars, vmVars, execVars, procVars>>
  \/ DeleteAnomalies /\ UNCHANGED <<txVars, retryVars, poolVars, raceVars, readVars, vmVars, execVars, procVars>>
  \/ DeleteValidator /\ UNCHANGED <<txVars, retryVars, poolVars, raceVars, readVars, vmVars, execVars, procVars>>
  \/ CleanupCommit /\ UNCHANGED <<txVars, retryVars, poolVars, raceVars, readVars, vmVars, execVars, procVars>>
  \/ CleanupAbort /\ UNCHANGED <<txVars, retryVars, poolVars, raceVars, readVars, vmVars, execVars, procVars>>
  \/ CleanupReturn /\ UNCHANGED <<txVars, retryVars, poolVars, raceVars, readVars, vmVars, execVars, procVars>>

RetentionInit == RepoInit /\ TxInit /\ RetryInit /\ PoolInit /\ SeededAnomInit /\ RetInit /\ RaceInit /\ ReadInit /\ VmInit /\ ExecInit /\ NoScript

\* Two concurrent upserts of one key, after at most MaxCalls - 2 earlier
\* upserts.
RaceNext ==
  \/ Tick /\ UNCHANGED <<raceVars, anomVars, retVars, txVars, retryVars, poolVars, readVars, vmVars, execVars, procVars>>
  \/ \E T \in Times, p \in Vals :
       /\ raceKind = "none"
       /\ calls + 2 < MaxCalls
       /\ insertTimeSeriesData(TsData(T, p, TRUE), TRUE)
       /\ UNCHANGED <<raceVars, anomVars, retVars, txVars, retryVars, poolVars, readVars, vmVars, execVars, procVars>>
  \/ \E a \in Addresses, p \in Vals :
       /\ raceKind = "none"
       /\ calls + 2 < MaxCalls
       /\ upsertWhaleWallet(WhData(a, p, TRUE), TRUE)
       /\ UNCHANGED <<raceVars, anomVars, retVars, txVars, retryVars, poolVars, readVars, vmVars, execVars, procVars>>
  \/ \E T \in Times, pa, pb \in Vals :
       /\ RaceBegin("time_series_data", TsData(T, pa, FALSE), TsData(T, pb, TRUE))
       /\ UNCHANGED <<anomVars, retVars, txVars, retryVars, poolVars, readVars, vmVars, execVars, procVars>>
  \/ \E a \in Addresses, pa, pb \in Vals :
       /\ RaceBegin("whale_wallets", WhData(a, pa, FALSE), WhData(a, pb, TRUE))
       /\ UNCHANGED <<anomVars, retVars, txVars, retryVars, poolVars, readVars, vmVars, execVars, procVars>>
  \/ \E w \in Writers :
       RaceApply(w) /\ UNCHANGED <<anomVars, retVars, txVars, retryVars, poolVars, readVars, vmVars, execVars, procVars>>

\* Filters of every shape: each property absent, present, or present and
\* empty, over a table of fewer than MaxCalls anomalies; one read a run.
AnomalyFilters ==
  [status : {NullStr, "", "active"}, severity : {NullStr, "", "HIGH"},
   type : {NullStr, "tvl_change"}, since : {Null, MaxTime}, limit : {Null, 1}]

FilterNext ==
  \/ Tick /\ UNCHANGED <<anomVars, readVars, txVars, retryVars, poolVars, retVars, raceVars, vmVars, execVars, procVars>>
  \/ \E sev \in {"HIGH", ""}, st \in {NullStr, "resolved"} :
       /\ anom_seq < MaxCalls
       /\ insertAnomaly(AnData(sev, st, FALSE), TRUE)
       /\ UNCHANGED <<readVars, txVars, retryVars, poolVars, retVars, raceVars, vmVars, execVars, procVars>>
  \/ \E filters \in AnomalyFilters, ok \in BOOLEAN :
       /\ rdCall.fn = "none"
       /\ getAnomalies(filters, ok)
       /\ UNCHANGED <<txVars, retryVars, poolVars, retVars, raceVars, vmVars, execVars, procVars>>

\* Every operation on anomalies, over anomalies resolved and dismissed
\* outside the repository: one insert, a first view of two closed
\* anomalies, one listing and one filtered read (before the views) a run,
\* and cleanupOldData
\* statement by statement, once.
LifecycleNext ==
  \/ Tick /\ UNCHANGED <<anomVars, retVars, readVars, txVars, retryVars, poolVars, raceVars, vmVars, execVars, procVars>>
  \/ \E st \in {NullStr, "resolved"} :
       /\ anom_seq = Cardinality(SeededAnomalies) + 1
       /\ insertAnomaly(AnData("HIGH", st, FALSE), TRUE)
       /\ UNCHANGED <<retVars, readVars, txVars, retryVars, poolVars, raceVars, vmVars, execVars, procVars>>
  \/ \E r \in anomalies :
       /\ r.status # "active" /\ r.view_count = 0
       /\ Cardinality({v \in anomalies : v.view_count > 0}) < 2
       /\ NotLocked(clDeleted.an, "id", r.id)
       /\ getAnomalyById(r.id, TRUE)
       /\ UNCHANGED <<retVars, readVars, txVars, retryVars, poolVars, raceVars, vmVars, execVars, procVars>>
  \/ /\ ~anListing.made
     /\ getActiveAnomalies(TRUE)
     /\ UNCHANGED <<retVars, readVars, txVars, retryVars, poolVars, raceVars, vmVars, execVars, procVars>>
  \/ \E status \in {"false_positive"} :
       /\ rdCall.fn = "none"
       /\ \A r \in anomalies : r.view_count = 0
       /\ getAnomalies([status |-> status, severity |-> NullStr, type |-> NullStr,
                        since |-> Null, limit |-> Null], TRUE)
       /\ UNCHANGED <<retVars, txVars, retryVars, poolVars, raceVars, vmVars, execVars, procVars>>
  \/ /\ clNow = Null
     /\ cleanupOldData(TRUE)
     /\ UNCHANGED <<readVars, txVars, retryVars, poolVars, raceVars, vmVars, execVars, procVars>>
  \/ DeleteTimeSeries /\ UNCHANGED <<readVars, txVars, retryVars, poolVars, raceVars, vmVars, execVars, procVars>>
  \/ DeleteSentiment /\ UNCHANGED <<readVars, txVars, retryVars, poolVars, raceVars, vmVars, execVars, procVars>>
  \/ DeleteAnomalies /\ UNCHANGED <<readVars, txVars, retryVars, poolVars, raceVars, vmVars, execVars, procVars>>
  \/ DeleteValidator /\ UNCHANGED <<readVars, txVars, retryVars, poolVars, raceVars, vmVars, execVars, procVars>>
  \/ CleanupCommit /\ UNCHANGED <<readVars, txVars, retryVars, poolVars, raceVars, vmVars, execVars, procVars>>
  \/ CleanupAbort /\ UNCHANGED <<readVars, txVars, retryVars, poolVars, raceVars, vmVars, execVars, procVars>>
  \/ CleanupReturn /\ UNCHANGED <<readVars, txVars, retryVars, poolVars, raceVars, vmVars, execVars, procVars>>

\* More than the anomaly retention passes at once.
Age ==
  /\ now < MaxTime * (AnomalyRetentionDays + 1)
  /\ now' = now + AnomalyRetentionDays + 1
  /\ UNCHANGED <<calls, time_series_data, whale_wallets, twitter_sentiment,
                 ts_seq, whale_seq, tw_seq, tsHist, whHist, twHist>>

\* Anomalies of every status inserted into the empty table, also while a
\* cleanup runs, viewed between cleanups, aged past the retention and
\* cleaned up once per clock value.
UnresolvedNext ==
  \/ Age /\ UNCHANGED <<anomVars, retVars>> /\ UNCHANGED <<readVars, txVars, retryVars, poolVars, raceVars, vmVars, execVars, procVars>>
  \/ \E st \in {NullStr, "resolved", "false_positive"} :
       /\ anom_seq + 2 < MaxAnomalies
       /\ insertAnomaly(AnData("HIGH", st, FALSE), TRUE)
       /\ UNCHANGED retVars /\ UNCHANGED <<readVars, txVars, retryVars, poolVars, raceVars, vmVars, execVars, procVars>>
  \/ \E r \in anomalies :
       /\ r.view_count = 0
       /\ clPc = "idle"
       /\ getAnomalyById(r.id, TRUE)
       /\ UNCHANGED retVars /\ UNCHANGED <<readVars, txVars, retryVars, poolVars, raceVars, vmVars, execVars, procVars>>
  \/ clNow # now /\ cleanupOldData(TRUE) /\ UNCHANGED <<readVars, txVars, retryVars, poolVars, raceVars, vmVars, execVars, procVars>>
  \/ DeleteTimeSeries /\ UNCHANGED <<readVars, txVars, retryVars, poolVars, raceVars, vmVars, execVars, procVars>>
  \/ DeleteSentiment /\ UNCHANGED <<readVars, txVars, retryVars, poolVars, raceVars, vmVars, execVars, procVars>>
  \/ DeleteAnomalies /\ UNCHANGED <<readVars, txVars, retryVars, poolVars, raceVars, vmVars, execVars, procVars>>
  \/ DeleteValidator /\ UNCHANGED <<readVars, txVars, retryVars, poolVars, raceVars, vmVars, execVars, procVars>>
  \/ CleanupCommit /\ UNCHANGED <<readVars, txVars, retryVars, poolVars, raceVars, vmVars, execVars, procVars>>
  \/ CleanupAbort /\ UNCHANGED <<readVars, txVars, retryVars, poolVars, raceVars, vmVars, execVars, procVars>>
  \/ CleanupReturn /\ UNCHANGED <<readVars, txVars, retryVars, poolVars, raceVars, vmVars, execVars, procVars>>

\* What callers pass for a window or a limit: nothing, a number, a string
\* that spells a number, or any other string.
WindowArgs == {JsUndefined, JsNumber(1), JsText("1"), JsText("0 hours' OR '1'='1")}
LimitArgs == {JsUndefined, JsNumber(1), JsNumber(-1), JsText("1; DELETE FROM anomalies")}

\* The reads with a time window, one a run, over fewer than MaxCalls
\* stored snapshots and tweets.
ReadsNext ==
  \/ Tick /\ UNCHANGED <<readVars, anomVars, txVars, retryVars, poolVars, retVars, raceVars, vmVars, execVars, procVars>>
  \/ \E T \in Times, opt \in BOOLEAN :
       /\ calls + 1 < MaxCalls
       /\ insertTimeSeriesData(TsData(T, 1, opt), TRUE)
       /\ UNCHANGED <<readVars, anomVars, txVars, retryVars, poolVars, retVars, raceVars, vmVars, execVars, procVars>>
  \/ \E t \in TweetIds, T \in Times :
       /\ calls + 1 < MaxCalls
       /\ insertTwitterSentiment(TwData(t, T, 1), TRUE)
       /\ UNCHANGED <<readVars, anomVars, txVars, retryVars, poolVars, retVars, raceVars, vmVars, execVars, procVars>>
  \/ \E hours \in WindowArgs, limit \in LimitArgs, ok \in BOOLEAN :
       /\ rdCall.fn = "none"
       /\ getTimeSeriesData(hours, limit, ok)
       /\ UNCHANGED <<txVars, retryVars, poolVars, retVars, raceVars, vmVars, execVars, procVars>>
  \/ \E days \in WindowArgs, ok \in BOOLEAN :
       /\ rdCall.fn = "none"
       /\ getBaselineStats(days, ok)
       /\ UNCHANGED <<txVars, retryVars, poolVars, retVars, raceVars, vmVars, execVars, procVars>>
  \/ \E hours \in WindowArgs, ok \in BOOLEAN :
       /\ rdCall.fn = "none"
       /\ getSentimentStats(hours, ok)
       /\ UNCHANGED <<txVars, retryVars, poolVars, retVars, raceVars, vmVars, execVars, procVars>>

\* A write ends the life of the last read's result.
ForgetRead ==
  /\ rdCall' = [fn |-> "none"]
  /\ rdSql' = <<>>
  /\ rdValues' = <<>>
  /\ rdResult' = NoRead

\* The snapshots table as the schema leaves it, or empty: the placeholder
\* row is older than the retention window and cleanup_old_data removed it.
LatestInit ==
  /\ Init
     \/ /\ now = 1 /\ calls = 0
        /\ time_series_data = {}
        /\ whale_wallets = {} /\ twitter_sentiment = {}
        /\ ts_seq = 2 /\ whale_seq = 1 /\ tw_seq = 1
        /\ tsHist = [t \in Times |-> <<>>]
        /\ whHist = [a \in Addresses |-> <<>>]
        /\ twHist = [t \in TweetIds |-> <<>>]
        /\ TxInit /\ RetryInit /\ PoolInit /\ AnomInit /\ RetInit /\ RaceInit /\ ReadInit /\ VmInit /\ ExecInit /\ NoScript

\* Snapshots of any collection_status, and getLatestMetrics between the
\* writes.
LatestNext ==
  \/ Tick /\ UNCHANGED <<readVars, anomVars, txVars, retryVars, poolVars, retVars, raceVars, vmVars, execVars, procVars>>
  \/ \E T \in Times, p \in {1, MaxVal}, opt \in BOOLEAN :
       /\ insertTimeSeriesData(TsData(T, p, opt), TRUE)
       /\ ForgetRead
       /\ UNCHANGED <<anomVars, txVars, retryVars, poolVars, retVars, raceVars, vmVars, execVars, procVars>>
  \/ \E ok \in BOOLEAN :
       /\ rdCall.fn = "none"
       /\ getLatestMetrics(ok)
       /\ UNCHANGED <<txVars, retryVars, poolVars, retVars, raceVars, vmVars, execVars, procVars>>

\* Validator snapshots, with and without a timestamp of their own.
ValidatorNext ==
  \/ Tick /\ UNCHANGED <<retVars, vmVars, readVars, anomVars, txVars, retryVars, poolVars, raceVars, execVars, procVars>>
  \/ \E T \in Times \cup {Null}, p \in Vals, ok \in BOOLEAN :
       /\ insertValidatorMetrics(VmData(T, p), ok)
       /\ UNCHANGED <<clPc, clNow, clDeleted, clRun, cleanAt>>
       /\ UNCHANGED <<readVars, anomVars, txVars, retryVars, poolVars, raceVars, execVars, procVars>>

\* Statements just below, at and above LeadingChars characters, with and
\* without parameters, and measured durations around SlowQueryMs.
QueryNext ==
  \E n \in {1, LeadingChars - 1, LeadingChars, LeadingChars + 1},
     params \in {<<>>, <<1>>},
     outcome \in PoolOutcomes,
     duration \in {0, SlowQueryMs - 1, SlowQueryMs, SlowQueryMs + 1, 30 * SlowQueryMs} :
    /\ query(Text(n), params, outcome, duration)
    /\ UNCHANGED <<repoVars, txVars, retryVars, poolVars, anomVars, retVars, raceVars, readVars, vmVars, procVars>>

\* The steps the event loop runs by itself: the awaits of main(), the
\* completion of pool.end(), the exit of a process with nothing left to do.
Scheduled ==
  \/ \E ok \in BOOLEAN :
       /\ TestConnectionStep(ok)
       /\ UNCHANGED <<repoVars, anomVars, retVars, readVars>> /\ UNCHANGED <<txVars, retryVars, poolVars, raceVars, vmVars, execVars>>
  \/ \E ok \in BOOLEAN :
       /\ InitializeSchemaStep(ok)
       /\ UNCHANGED readVars /\ UNCHANGED <<txVars, retryVars, poolVars, raceVars, vmVars, execVars>>
  \/ \E ok \in BOOLEAN :
       /\ HealthCheckStep(ok)
       /\ UNCHANGED <<repoVars, anomVars, retVars, readVars>> /\ UNCHANGED <<txVars, retryVars, poolVars, raceVars, vmVars, execVars>>
  \/ \E ok \in BOOLEAN :
       /\ DatabaseStatsStep(ok)
       /\ UNCHANGED <<repoVars, anomVars, retVars, readVars>> /\ UNCHANGED <<txVars, retryVars, poolVars, raceVars, vmVars, execVars>>
  \/ \E ok \in BOOLEAN :
       /\ InsertTestDataStep(ok)
       /\ UNCHANGED <<anomVars, retVars, readVars>> /\ UNCHANGED <<txVars, retryVars, poolVars, raceVars, vmVars, execVars>>
  \/ \E ok \in BOOLEAN :
       /\ LatestMetricsStep(ok)
       /\ UNCHANGED retVars /\ UNCHANGED <<txVars, retryVars, poolVars, raceVars, vmVars, execVars>>
  \/ \E ok \in BOOLEAN :
       /\ CleanupTestDataStep(ok)
       /\ UNCHANGED <<anomVars, retVars, readVars>> /\ UNCHANGED <<txVars, retryVars, poolVars, raceVars, vmVars, execVars>>
  \/ /\ FinallyClosePool
     /\ UNCHANGED <<repoVars, anomVars, retVars, readVars>> /\ UNCHANGED <<txVars, retryVars, poolVars, raceVars, vmVars, execVars>>
  \/ /\ EndCompletes
     /\ UNCHANGED <<repoVars, anomVars, retVars, readVars>> /\ UNCHANGED <<txVars, retryVars, poolVars, raceVars, vmVars, execVars>>
  \/ /\ Drained
     /\ UNCHANGED <<repoVars, anomVars, retVars, readVars>> /\ UNCHANGED <<txVars, retryVars, poolVars, raceVars, vmVars, execVars>>

\* What happens to the process from outside: time passes, a signal arrives,
\* an idle client times out or loses its connection.
Environment ==
  \/ /\ Running /\ Tick
     /\ UNCHANGED <<anomVars, retVars, readVars, procVars>> /\ UNCHANGED <<txVars, retryVars, poolVars, raceVars, vmVars, execVars>>
  \/ \E s \in SignalNames :
       /\ Signal(s)
       /\ UNCHANGED <<repoVars, anomVars, retVars, readVars>> /\ UNCHANGED <<txVars, retryVars, poolVars, raceVars, vmVars, execVars>>
  \/ /\ IdleClientTimeout
     /\ UNCHANGED <<repoVars, anomVars, retVars, readVars>> /\ UNCHANGED <<txVars, retryVars, poolVars, raceVars, vmVars, execVars>>
  \/ /\ IdleClientError
     /\ UNCHANGED <<repoVars, anomVars, retVars, readVars>> /\ UNCHANGED <<txVars, retryVars, poolVars, raceVars, vmVars, execVars>>

ProcessInit ==
  RepoInit /\ TxInit /\ RetryInit /\ PoolInit /\ AnomInit /\ RetInit /\ RaceInit /\ ReadInit
  /\ VmInit /\ ExecInit /\ ProcInit

ProcessNext == Scheduled \/ Environment

\* init-schema.js is run, on a Node where unhandled rejections are fatal.
SchemaInit ==
  RepoInit /\ TxInit /\ RetryInit /\ PoolInit /\ AnomInit /\ RetInit /\ RaceInit /\ ReadInit
  /\ VmInit /\ ExecInit /\ ProcStart("init-schema", "throw")

\* init-schema.js next to the writes of a collector: a row for each table
\* (calls permitting), before or after the schema statement.
SchemaNext ==
  \/ Tick /\ UNCHANGED <<anomVars, retVars, vmVars, procVars>> /\ UNCHANGED <<txVars, retryVars, poolVars, raceVars, readVars, execVars>>
  \/ /\ Cardinality(time_series_data) < 2
     /\ insertTimeSeriesData(TsData(now, 1, FALSE), TRUE)
     /\ UNCHANGED <<anomVars, retVars, vmVars, procVars>> /\ UNCHANGED <<txVars, retryVars, poolVars, raceVars, readVars, execVars>>
  \/ /\ whale_wallets = {}
     /\ upsertWhaleWallet(WhData("0xA", 1, FALSE), TRUE)
     /\ UNCHANGED <<anomVars, retVars, vmVars, procVars>> /\ UNCHANGED <<txVars, retryVars, poolVars, raceVars, readVars, execVars>>
  \/ /\ twitter_sentiment = {}
     /\ insertTwitterSentiment(TwData("t1", now, 1), TRUE)
     /\ UNCHANGED <<anomVars, retVars, vmVars, procVars>> /\ UNCHANGED <<txVars, retryVars, poolVars, raceVars, readVars, execVars>>
  \/ /\ anomalies = {}
     /\ insertAnomaly(AnData("HIGH", NullStr, FALSE), TRUE)
     /\ UNCHANGED <<retVars, vmVars, procVars>> /\ UNCHANGED <<txVars, retryVars, poolVars, raceVars, readVars, execVars>>
  \/ /\ validator_metrics = {}
     /\ insertValidatorMetrics(VmData(now, 1), TRUE)
     /\ UNCHANGED <<clPc, clNow, clDeleted, clRun, cleanAt>>
     /\ UNCHANGED <<anomVars, procVars>> /\ UNCHANGED <<txVars, retryVars, poolVars, raceVars, readVars, execVars>>
  \/ \E ok \in BOOLEAN :
       /\ TestConnectionStep(ok)
       /\ UNCHANGED <<repoVars, anomVars, retVars, vmVars>> /\ UNCHANGED <<txVars, retryVars, poolVars, raceVars, readVars, execVars>>
  \/ \E ok \in BOOLEAN :
       /\ InitializeSchemaStep(ok)
       /\ UNCHANGED vmVars /\ UNCHANGED <<txVars, retryVars, poolVars, raceVars, readVars, execVars>>
  \/ /\ FinallyClosePool
     /\ UNCHANGED <<repoVars, anomVars, retVars, vmVars>> /\ UNCHANGED <<txVars, retryVars, poolVars, raceVars, readVars, execVars>>
  \/ /\ EndCompletes
     /\ UNCHANGED <<repoVars, anomVars, retVars, vmVars>> /\ UNCHANGED <<txVars, retryVars, poolVars, raceVars, readVars, execVars>>
  \/ /\ Drained
     /\ UNCHANGED <<repoVars, anomVars, retVars, vmVars>> /\ UNCHANGED <<txVars, retryVars, poolVars, raceVars, readVars, execVars>>

\* The tables share no statement: each repository is checked on its own table.
SpecTimeSeries == Init /\ [][TimeSeriesNext]_vars
SpecWhale == Init /\ [][WhaleNext]_vars
SpecSentiment == Init /\ [][SentimentNext]_vars
SpecTx == Init /\ [][TxNext]_vars
SpecRetry == Init /\ [][RetryNext]_vars
SpecPool == Init /\ [][PoolNext]_vars
SpecListing == Init /\ [][ListingNext]_vars
SpecAnomaly == Init /\ [][AnomalyNext]_vars
SpecRetention == RetentionInit /\ [][RetentionNext]_vars
SpecRace == Init /\ [][RaceNext]_vars
SpecFilter == Init /\ [][FilterNext]_vars
SpecLifecycle == RetentionInit /\ [][LifecycleNext]_vars
SpecReads == Init /\ [][ReadsNext]_vars
SpecLatest == LatestInit /\ [][LatestNext]_vars
SpecValidator == Init /\ [][ValidatorNext]_vars
SpecQuery == Init /\ [][QueryNext]_vars
SpecUnresolved == Init /\ [][UnresolvedNext]_vars
SpecSchema == SchemaInit /\ [][SchemaNext]_vars
SpecProcess == ProcessInit /\ [][ProcessNext]_vars /\ WF_vars(Scheduled)

\* ================================================================== claims

Last(seq) == seq[Len(seq)]
Min(a, b) == IF a < b THEN a ELSE b
Max(a, b) == IF a > b THEN a ELSE b

RECURSIVE Pow(_, _)
Pow(b, n) == IF n = 0 THEN 1 ELSE b * Pow(b, n - 1)

\* The columns the claims call mutable.
TsMutable == {"tvl_usd", "tvl_eth", "unique_stakers", "collection_status"}
TwEngagement == {"retweet_count", "like_count", "reply_count"}

\* C1  Idempotent upsert of metric snapshots: once insertTimeSeriesData has
\* stored timestamp T, however often it is called again for T, the table
\* holds exactly one row for T; tvl_usd, tvl_eth, unique_stakers and
\* collection_status carry the latest call's values, and every other column
\* (the id included) carries the first call's.
C1_IdempotentUpsert ==
  \A T \in Times :
    tsHist[T] # <<>> =>
      LET rows == {r \in time_series_data : r.timestamp = T}
          first == tsHist[T][1]
          latest == Last(tsHist[T])
      IN /\ Cardinality(rows) = 1
         /\ \A r \in rows :
              /\ \A f \in TsMutable : r[f] = latest.values[f]
              /\ r.id = first.id
              /\ \A f \in DOMAIN r \ (TsMutable \cup {"id"}) : r[f] = first.values[f]

\* C1 witness: T was inserted twice, with different TVL values.
C1_CalledTwice ==
  \E T \in Times :
    /\ Len(tsHist[T]) = 2
    /\ tsHist[T][1].values.tvl_usd # tsHist[T][2].values.tvl_usd
    /\ tsHist[T][1].values.collection_status # tsHist[T][2].values.collection_status

\* C2  Unique-key enforcement for whale wallets: whale_wallets never holds
\* two rows for one address, and the row of an upserted address carries the
\* rank_position and the last_updated (the NOW()) of its most recent upsert.
C2_UniqueAddress ==
  \A a \in Addresses :
    LET rows == {r \in whale_wallets : r.address = a} IN
      /\ Cardinality(rows) <= 1
      /\ whHist[a] # <<>> =>
           /\ Cardinality(rows) = 1
           /\ \A r \in rows :
                /\ r.rank_position = Last(whHist[a]).values.rank_position
                /\ r.last_updated = Last(whHist[a]).at

\* C2 witness: one address was upserted twice, at different times and with
\* different ranks.
C2_UpsertedTwice ==
  \E a \in Addresses :
    /\ Len(whHist[a]) = 2
    /\ whHist[a][1].at # whHist[a][2].at
    /\ whHist[a][1].values.rank_position # whHist[a][2].values.rank_position

\* C3  Sentiment re-ingestion: however often insertTwitterSentiment is called
\* for a stored tweet_id, the table holds one row for it; retweet_count,
\* like_count and reply_count carry the latest call's values, and
\* sentiment_score, sentiment_label, confidence and every other column carry
\* the values stored first.
C3_SentimentReingestion ==
  \A t \in TweetIds :
    twHist[t] # <<>> =>
      LET rows == {r \in twitter_sentiment : r.tweet_id = t}
          first == twHist[t][1]
          latest == Last(twHist[t])
      IN /\ Cardinality(rows) = 1
         /\ \A r \in rows :
              /\ \A f \in TwEngagement : r[f] = latest.values[f]
              /\ r.id = first.id
              /\ \A f \in DOMAIN r \ (TwEngagement \cup {"id"}) : r[f] = first.values[f]

\* C3 witness: a tweet was ingested twice, with other counters and another
\* score the second time.
C3_IngestedTwice ==
  \E t \in TweetIds :
    /\ Len(twHist[t]) = 2
    /\ twHist[t][1].values.like_count # twHist[t][2].values.like_count
    /\ twHist[t][1].values.sentiment_score # twHist[t][2].values.sentiment_score

\* ------------------------------------------------------- transaction runner

Returned == txRun >= 1 /\ txPc \in {"done", "idle"}
Logged(what, ok) == \E i \in 1..Len(txLog) : txLog[i].what = what /\ txLog[i].ok = ok
Issued(what) == \E i \in 1..Len(txLog) : txLog[i].what = what
CallbackFailed == caught[1] = "stmt"

\* C4  Transactional atomicity: for every call of transaction() that has
\* returned and whose callback succeeded on statement 1 and failed on a later
\* statement, the effect of its statement 1 is not in the committed database.
C4_Atomicity ==
  \A k \in partial :
    (k < txRun \/ Returned) => <<k, 1>> \notin db

\* C5  Scoped release: a call of transaction() never releases more than it
\* acquired, and when it returns, on every exit path, it has released the
\* client it acquired exactly once and the client is no longer checked out.
C5_ScopedRelease ==
  /\ released <= acquired
  /\ Returned => /\ released = acquired
                 /\ cl.where # "out"

\* C5 witness: transaction() has returned after its ROLLBACK failed, with the
\* client released once.
C5_ReleasedAfterRollbackFailure ==
  /\ txPc = "done"
  /\ Logged("ROLLBACK", FALSE)
  /\ acquired = 1
  /\ released = 1

\* C6  The original failure is never masked: when the callback failed with E
\* and the ROLLBACK failed too, transaction() rejects with E.
C6_OriginalFailureNotMasked ==
  (Returned /\ CallbackFailed /\ Logged("ROLLBACK", FALSE)) => txOutcome = Rejected(caught)

\* The order of one run's events, as far as it has got: BEGIN is issued
\* before the callback is invoked, COMMIT only after the callback returned
\* normally (every one of its statements succeeded), a failure of the callback
\* or of COMMIT reaches the caller only after a ROLLBACK was issued, and
\* COMMIT and ROLLBACK never both succeed.
ProtocolOrder ==
  /\ \A i \in 1..Len(txLog) :
       txLog[i].what = "callback" => \E j \in 1..(i - 1) : txLog[j].what = "BEGIN"
  /\ \A i \in 1..Len(txLog) :
       txLog[i].what = "COMMIT" =>
         /\ \E j \in 1..(i - 1) : txLog[j].what = "callback"
         /\ \A n \in 1..TxStmts : \E j \in 1..(i - 1) : txLog[j] = Event("stmt", n, TRUE)
         /\ \A j \in 1..(i - 1) : txLog[j].what = "stmt" => txLog[j].ok
  /\ (txPc \in {"finally", "done"} /\ caught[1] \in {"stmt", "COMMIT"}) => Issued("ROLLBACK")
  /\ ~(Logged("COMMIT", TRUE) /\ Logged("ROLLBACK", TRUE))

\* C7 as stated: in every run of transaction() exactly one client is
\* acquired, and the run's events keep the protocol order.
C7_ExactlyOneClientEveryRun ==
  /\ acquired <= 1
  /\ Returned => acquired = 1
  /\ ProtocolOrder

\* C7 as amended: no run acquires more than one client, and every run whose
\* getClient() succeeded acquires exactly one (a run whose getClient() rejects
\* acquires none and issues nothing); the run's events keep the protocol order.
C7_ProtocolOrder ==
  /\ acquired <= 1
  /\ Returned => (acquired = 1 <=> txOutcome # Rejected(<<"connect", 0>>))
  /\ (acquired = 0 /\ txRun >= 1) => txLog = <<>>
  /\ ProtocolOrder

\* C7 witness: a run whose COMMIT failed has returned after a successful
\* ROLLBACK.
C7_RolledBackAfterCommitFailure ==
  /\ txPc = "done"
  /\ Logged("COMMIT", FALSE)
  /\ Logged("ROLLBACK", TRUE)
  /\ txOutcome = Rejected(<<"COMMIT", 0>>)

\* ------------------------------------------------------------- retry policy

C9_BackoffSchedule ==
  /\ \A k \in 1..Len(waits) :
       waits[k] = rOpts.delayMs * Pow(rOpts.backoffMultiplier, k - 1)
  /\ rPc = "wait" => /\ Len(waits) = attempt - 1
                     /\ Len(thrown) = attempt
                     /\ delay = rOpts.delayMs * Pow(rOpts.backoffMultiplier, attempt - 1)

\* C9 witness: two waits were made with a multiplier that changes the delay.
C9_WaitedTwice ==
  /\ Len(waits) >= 2
  /\ rOpts.backoffMultiplier >= 2
  /\ waits[2] # waits[1]

\* C10  Retry bound and observer hook: fn is invoked at most maxAttempts
\* times and never after a success; onRetry is invoked exactly once per
\* failed attempt k < maxAttempts, with that attempt's error and k; after the
\* failure of attempt maxAttempts there is no onRetry, no wait and no further
\* invocation.
C10_RetryBoundAndHook ==
  /\ fnCalls <= Max(rOpts.maxAttempts, 0)
  /\ fnResult # Undefined => (rPc = "done" /\ fnCalls = Len(thrown) + 1)
  /\ fnResult = Undefined => fnCalls = Len(thrown)
  /\ Len(hookLog) = IF rOpts.onRetry THEN Min(Len(thrown), Max(rOpts.maxAttempts - 1, 0)) ELSE 0
  /\ \A k \in 1..Len(hookLog) : hookLog[k] = <<thrown[k], k>>
  /\ Len(waits) <= Min(Len(thrown), Max(rOpts.maxAttempts - 1, 0))
  /\ (rPc = "done" /\ rOutcome.kind = "rejected" /\ rOpts.maxAttempts >= 1) =>
       /\ fnCalls = rOpts.maxAttempts
       /\ Len(waits) = rOpts.maxAttempts - 1

\* C10 witness: with maxAttempts = 3 and an observer, all three attempts
\* failed and retry() rejected after two hook calls and two waits.
C10_HookCalledTwice ==
  /\ rPc = "done"
  /\ rOutcome.kind = "rejected"
  /\ rOpts.onRetry
  /\ rOpts.maxAttempts = 3
  /\ Len(hookLog) = 2
  /\ Len(waits) = 2

\* ---------------------------------------------------------- connection pool

Holders(i) == {c \in Callers : cPc[c] = "holding" /\ cClient[c] = i}

\* C11  Pool bound: the live connections of the pool (connecting, checked
\* out or idle) never number more than max, whatever query(), getClient()
\* and transaction() callers do concurrently.
C11_PoolBound == Cardinality(Live) <= PoolMax

\* C11 witness: the pool is at max with every client checked out, and one
\* more caller is waiting in connect().
C11_FullWithWaiter ==
  /\ Cardinality({i \in ClientIds : pClients[i].state = "busy"}) = PoolMax
  /\ pQueue # <<>>

\* C12  Bounded wait on acquire: no caller obtains a connection while max
\* clients are checked out to others (a client is held by one caller at a
\* time), and a caller whose wait ends by connectionTimeout receives a
\* ConnectionError.
C12_BoundedWaitTyped ==
  /\ \A i \in ClientIds : Cardinality(Holders(i)) <= 1
  /\ Cardinality({c \in Callers : cPc[c] = "holding"}) <= PoolMax
  /\ cResult.message = ConnectTimeout => cResult.name = "ConnectionError"

\* ---------------------------------------------------------------- anomalies

\* The severity ranks as the listing is specified: most urgent first.
UrgencyRank(severity) ==
  CASE severity = "CRITICAL" -> 1
    [] severity = "HIGH" -> 2
    [] severity = "MEDIUM" -> 3
    [] severity = "LOW" -> 4

AnomalyRow(id) == CHOOSE r \in anomalies : r.id = id

\* The stored anomalies are the four of the example: LOW, CRITICAL, HIGH,
\* CRITICAL, all active, detected at t1 < t2 < t3 < t4.
ExampleStored ==
  /\ {r.id : r \in anomalies} = 1..4
  /\ \A r \in anomalies : r.status = "active"
  /\ <<AnomalyRow(1).severity, AnomalyRow(2).severity,
       AnomalyRow(3).severity, AnomalyRow(4).severity>>
       = <<"LOW", "CRITICAL", "HIGH", "CRITICAL">>
  /\ \A i \in 1..3 : AnomalyRow(i).detected_at < AnomalyRow(i + 1).detected_at

\* C13  Active-anomaly ordering: what getActiveAnomalies returned holds only
\* anomalies whose status is active, each once, ordered by severity rank
\* CRITICAL, HIGH, MEDIUM, LOW and, within one severity, by detected_at
\* descending; for the example [LOW, CRITICAL, HIGH, CRITICAL] at
\* t1 < t2 < t3 < t4 it is the CRITICAL of t4, the CRITICAL of t2, the HIGH,
\* the LOW.
C13_ActiveOrdering ==
  anListing.made =>
    LET rows == anListing.rows IN
    /\ \A i \in 1..Len(rows) :
         \E r \in anomalies : r.id = rows[i].id /\ r.status = "active"
                               /\ r.severity = rows[i].severity
                               /\ r.detected_at = rows[i].detected_at
    /\ \A i, j \in 1..Len(rows) : i < j =>
         /\ rows[i].id # rows[j].id
         /\ UrgencyRank(rows[i].severity) <= UrgencyRank(rows[j].severity)
         /\ rows[i].severity = rows[j].severity =>
              rows[i].detected_at >= rows[j].detected_at
    /\ ExampleStored => [i \in 1..Len(rows) |-> rows[i].id] = <<4, 2, 3, 1>>

\* C13 witness: the four anomalies of the example are stored and listed.
C13_ExampleListed == anListing.made /\ ExampleStored

\* C19  Record a view: a stored anomaly, whatever its status, is the row as
\* inserted except that view_count is the number of getAnomalyById calls
\* made for it (each adds exactly 1, in whatever order the calls for the
\* different anomalies interleave) and last_viewed_at is the NOW() of the
\* latest of them; no call adds or removes a row.
C19_RecordView ==
  /\ \A id \in AnomalyIds :
       anInserted[id] # <<>> =>
         /\ Cardinality({r \in anomalies : r.id = id}) = 1
         /\ AnomalyRow(id) = [anInserted[id][1] EXCEPT !.view_count = anViews[id].n,
                                                       !.last_viewed_at = anViews[id].at]
         /\ anViews[id].n > 0 => anViews[id].at # Null
  /\ \A r \in anomalies : anInserted[r.id] # <<>>

\* C19 witness: a resolved anomaly was viewed twice while another anomaly
\* was stored and not viewed.
C19_ViewedTwice ==
  \E a, b \in anomalies :
    /\ a.status = "resolved"
    /\ anViews[a.id].n = 2
    /\ b.id # a.id
    /\ anViews[b.id].n = 0

\* C20  Anomaly lifecycle domain: every anomaly insertAnomaly stored was
\* stored with status active, and the status of every stored anomaly is one
\* of active, resolved, false_positive.
C20_LifecycleDomain ==
  /\ \A id \in AnomalyIds :
       anInserted[id] # <<>> => anInserted[id][1].status = "active"
  /\ \A r \in anomalies : r.status \in {"active", "resolved", "false_positive"}

\* ---------------------------------------------------------------- retention

\* What the claims call older than the window: strictly before clock - days.
OlderThan(timestamp, clock, days) == timestamp < clock - days

\* The rows of `before` that are not in `after` (by id).
Removed(before, after) == {r \in before : \A q \in after : q.id # r.id}

\* C14  Retention boundary for anomalies: when cleanupOldData has completed,
\* an anomaly stored at its call is gone if and only if its status is
\* resolved and its resolved_at is older than NOW() - 90 days: resolved 91
\* days ago is deleted, resolved 89 days ago is retained, and an active or
\* false_positive anomaly is retained whatever its dates.
C14_AnomalyRetention ==
  clPc = "done" =>
    /\ anomalies \subseteq clRun.before.an
    /\ \A r \in clRun.before.an :
         /\ r \notin anomalies <=>
              (r.status = "resolved" /\ r.resolved_at # Null
                 /\ OlderThan(r.resolved_at, clNow, 90))
         /\ (r.status = "resolved" /\ r.resolved_at = clNow - 91) => r \notin anomalies
         /\ (r.status = "resolved" /\ r.resolved_at = clNow - 89) => r \in anomalies
         /\ r.status \in {"active", "false_positive"} => r \in anomalies

\* C14 witness: a completed cleanup deleted the anomaly resolved 91 days
\* ago and kept the one resolved 89 days ago and the active one detected
\* 200 days ago.
C14_BoundaryCleaned ==
  /\ clPc = "done"
  /\ \E r \in clRun.before.an \ anomalies : r.resolved_at = clNow - 91
  /\ \E r \in anomalies : r.status = "resolved" /\ r.resolved_at = clNow - 89
  /\ \E r \in anomalies : r.status = "active" /\ r.detected_at = clNow - 200

\* C15  Retention windows: when cleanupOldData has completed and no other
\* session wrote meanwhile, time_series_data and validator_metrics hold
\* exactly their rows not older than NOW() - 90 days, twitter_sentiment
\* exactly its rows not older than NOW() - 60 days (a row at the boundary
\* stays), and whale_wallets is as it was.
C15_RetentionWindows ==
  (clPc = "done" /\ clRun.quiet) =>
    /\ time_series_data = {r \in clRun.before.ts : ~OlderThan(r.timestamp, clNow, 90)}
    /\ validator_metrics = {r \in clRun.before.vm : ~OlderThan(r.timestamp, clNow, 90)}
    /\ twitter_sentiment = {r \in clRun.before.tw : ~OlderThan(r.timestamp, clNow, 60)}
    /\ whale_wallets = clRun.before.wh

\* C15 witness: a completed cleanup kept a snapshot stamped exactly 90 days
\* ago and removed another, older one.
C15_WindowsCleaned ==
  /\ clPc = "done"
  /\ clRun.quiet
  /\ \E r \in time_series_data : r.timestamp = clNow - 90
  /\ \E r \in clRun.before.ts \ time_series_data : r.timestamp = clNow - 91

\* C16  Retention is idempotent and restartable: a complete run that
\* directly follows a complete run at the same clock value, interrupted runs
\* in between or not, leaves every table as it found it, and an interrupted
\* run leaves every table as it found it.
C16_CleanupIdempotent ==
  /\ (clPc = "done" /\ clRun.rerun /\ clRun.quiet) => Tables = clRun.before
  /\ (clPc = "failed" /\ clRun.quiet) => Tables = clRun.before

\* C16 witness: a second complete run has followed, at the same clock value,
\* a run that removed a snapshot and an anomaly.
C16_RanTwice ==
  /\ clPc = "done"
  /\ clRun.rerun
  /\ clRun.quiet
  /\ ts_seq > Cardinality(time_series_data) + 1
  /\ Cardinality(anomalies) < Cardinality(SeededAnomalies)

\* C17  Retention is safe against concurrent ingestion: in every step, a row
\* that leaves time_series_data or validator_metrics has a timestamp older
\* than now - 90 days, and a row that leaves twitter_sentiment one older
\* than now - 60 days.
C17_SafeAgainstIngestion ==
  [][/\ \A r \in Removed(time_series_data, time_series_data') :
          OlderThan(r.timestamp, now, 90)
     /\ \A r \in Removed(validator_metrics, validator_metrics') :
          OlderThan(r.timestamp, now, 90)
     /\ \A r \in Removed(twitter_sentiment, twitter_sentiment') :
          OlderThan(r.timestamp, now, 60)]_vars

\* C17 witness: a cleanup has removed a row while ingestion wrote another
\* row during that cleanup.
C17_CleanedWhileIngesting ==
  /\ clPc = "done"
  /\ ~clRun.quiet
  /\ \/ Removed(clRun.before.ts, time_series_data) # {}
     \/ Removed(clRun.before.vm, validator_metrics) # {}
     \/ Removed(clRun.before.tw, twitter_sentiment) # {}
  /\ \/ Removed(time_series_data, clRun.before.ts) # {}
     \/ Removed(validator_metrics, clRun.before.vm) # {}
     \/ Removed(twitter_sentiment, clRun.before.tw) # {}

\* -------------------------------------------------------- concurrent upserts

WhMutable == {"current_balance_eeth", "current_balance_usd", "change_24h_eeth",
              "change_24h_percent", "rank_position", "last_updated"}

RaceOnTs == raceKind = "time_series_data"
RaceDone == raceKind # "none" /\ Len(raceOrder) = 2
RaceMutable == IF RaceOnTs THEN TsMutable ELSE WhMutable

\* The rows of the contested key in a pair of tables.
RaceRowsIn(tables) ==
  IF RaceOnTs
  THEN {r \in tables.ts : r.timestamp = raceData["A"].timestamp}
  ELSE {r \in tables.wh : r.address = raceData["A"].address}

\* The row the statement of writer w proposes when it is the k-th applied.
RaceProposed(w, k) ==
  IF RaceOnTs
  THEN TsRow(TsValues(raceData[w], raceOrder[k].at), raceStart.ts_seq + k - 1)
  ELSE WhRow(WhValues(raceData[w]), raceStart.whale_seq + k - 1, raceOrder[k].at)

\* The tables had the two statements been applied in the order w1, w2.
RaceResult(w1, w2) ==
  [ts |-> IF RaceOnTs
          THEN TsUpsert(TsUpsert(raceStart.ts, RaceProposed(w1, 1)), RaceProposed(w2, 2))
          ELSE raceStart.ts,
   wh |-> IF RaceOnTs
          THEN raceStart.wh
          ELSE WhUpsert(WhUpsert(raceStart.wh, RaceProposed(w1, 1), raceOrder[1].at),
                        RaceProposed(w2, 2), raceOrder[2].at)]

RaceRow == CHOOSE r \in RaceRowsIn(Tables) : TRUE

\* One row for the key, with the mutable columns of the write applied last.
RaceLastWriteWins ==
  /\ Cardinality(RaceRowsIn(Tables)) = 1
  /\ \A f \in RaceMutable : RaceRow[f] = RaceProposed(raceOrder[2].writer, 2)[f]

\* C18 as stated: after two concurrent upserts of one key there is exactly
\* one row for the key, its mutable columns are those of the write applied
\* last, and its other columns are what they would be had the two writes
\* been applied in the other order.
C18_OrderIndependent ==
  RaceDone =>
    /\ RaceLastWriteWins
    /\ LET other == RaceRowsIn(RaceResult(raceOrder[2].writer, raceOrder[1].writer))
       IN \A f \in DOMAIN RaceRow \ RaceMutable : \A o \in other : RaceRow[f] = o[f]

\* C18 as amended: exactly one row for the key, its mutable columns are those
\* of the write applied last, and its other columns are those of the row
\* stored before the two writes or, when the key was new, those of the write
\* applied first.
C18_LastWriteWins ==
  RaceDone =>
    /\ RaceLastWriteWins
    /\ LET stored == RaceRowsIn(raceStart)
           base == IF stored # {} THEN CHOOSE r \in stored : TRUE
                   ELSE RaceProposed(raceOrder[1].writer, 1)
       IN \A f \in DOMAIN RaceRow \ RaceMutable : RaceRow[f] = base[f]

\* C18 witness: two different snapshots for a timestamp not stored before
\* were written concurrently and applied B first, A last.
C18_RacedOnNewKey ==
  /\ RaceDone
  /\ RaceOnTs
  /\ RaceRowsIn(raceStart) = {}
  /\ raceData["A"].tvl_change_percent # raceData["B"].tvl_change_percent
  /\ <<raceOrder[1].writer, raceOrder[2].writer>> = <<"B", "A">>

\* ------------------------------------------------------ anomaly lifecycle

\* C21: no step of the persistence layer (insertAnomaly, getAnomalyById,
\* getActiveAnomalies, getAnomalies, cleanupOldData) changes the status of
\* an anomaly that is already stored; a resolved or false_positive anomaly
\* in particular never becomes active again.
C21_NoAutomaticTransition ==
  [][\A r \in anomalies : \A q \in anomalies' : q.id = r.id => q.status = r.status]_vars

\* C21 witness: after an insert, a filtered read, a listing and a complete
\* cleanup, a resolved and a false_positive anomaly have been viewed and
\* are still resolved and false_positive.
C21_ViewedAndStillClosed ==
  /\ anom_seq > Cardinality(SeededAnomalies)
  /\ rdCall.fn = "getAnomalies"
  /\ anListing.made
  /\ clPc = "done"
  /\ \E r \in anomalies : r.status = "resolved" /\ r.view_count > 0
  /\ \E r \in anomalies : r.status = "false_positive" /\ r.view_count > 0

\* --------------------------------------------------------- repository reads

Placeholders(sql) == SelectSeq(sql, LAMBDA t : t.param # 0)
Occurrences(sql, lit) == Cardinality({i \in DOMAIN sql : sql[i].lit = lit})

\* The recognized filters: the conjunct each appends, and whether the filter
\* object has it.
FilterConjuncts(f) ==
  <<[lit |-> " AND status = ", present |-> f.status # NullStr],
    [lit |-> " AND severity = ", present |-> f.severity # NullStr],
    [lit |-> " AND anomaly_type = ", present |-> f.type # NullStr],
    [lit |-> " AND detected_at >= ", present |-> f.since # Null]>>

\* C22: whatever the filter object, the statement getAnomalies builds has one
\* conjunct for each recognized filter the object has and none for one it
\* lacks, every conjunct is followed by one placeholder, the placeholders
\* are $1..$n in this order, and n is the length of the values array.
C22_PredicateComposition ==
  rdCall.fn = "getAnomalies" =>
    /\ \A k \in 1..4 :
         LET c == FilterConjuncts(rdCall.filters)[k]
         IN Occurrences(rdSql, c.lit) = IF c.present THEN 1 ELSE 0
    /\ \A i \in DOMAIN rdSql :
         rdSql[i].lit \in {FilterConjuncts(rdCall.filters)[k].lit : k \in 1..4} \cup {" LIMIT "}
           => i < Len(rdSql) /\ rdSql[i + 1].param # 0
    /\ Placeholders(rdSql) = [k \in 1..Len(rdValues) |-> Param(k)]
    /\ rdSql[Len(rdSql)].lit = " ORDER BY detected_at DESC" \/ rdSql[Len(rdSql) - 1].lit = " LIMIT "

\* The statement without its LIMIT clause.
StripLimit(sql) ==
  IF Len(sql) >= 2 /\ sql[Len(sql) - 1].lit = "LIMIT " THEN SubSeq(sql, 1, Len(sql) - 2)
  ELSE IF sql # <<>> /\ sql[Len(sql)] = Lit("") THEN SubSeq(sql, 1, Len(sql) - 1)
  ELSE sql

\* The statement each read with a window passes when called without arguments.
PlainStatement(fn) ==
  CASE fn = "getTimeSeriesData" -> TimeSeriesQuery(JsNumber(24), JsUndefined)
    [] fn = "getBaselineStats" -> BaselineQuery(JsNumber(30))
    [] fn = "getSentimentStats" -> SentimentQuery(JsNumber(24))

\* C23: in every read with a time window or a limit, a limit that is
\* embedded in the statement is a positive integer, and apart from the
\* limit the statement text does not depend on the caller's input: it is
\* the text the same read passes when called without arguments.
C23_NoCallerDataInSql ==
  rdCall.fn \in {"getTimeSeriesData", "getBaselineStats", "getSentimentStats"} =>
    /\ (Len(rdSql) >= 2 /\ rdSql[Len(rdSql) - 1].lit = "LIMIT ")
         => rdCall.limit.t = "number" /\ rdCall.limit.n > 0
    /\ StripLimit(rdSql) = StripLimit(PlainStatement(rdCall.fn))

LatestMetricsColumns ==
  {"timestamp", "tvl_usd", "tvl_eth", "unique_stakers", "withdrawal_queue_size",
   "eeth_eth_price_ratio", "peg_deviation_percent", "total_volume_eth_24h",
   "avg_gas_price_gwei"}

\* The stored snapshots with the greatest timestamp.
Newest == {r \in time_series_data : \A q \in time_series_data : q.timestamp <= r.timestamp}

\* C30: getLatestMetrics returns no row on an empty table and otherwise the
\* latest_metrics columns of the stored snapshot with the greatest
\* timestamp, whatever its collection_status; when the last statement
\* inserted that snapshot, these are the values insertTimeSeriesData bound.
C30_LatestMetrics ==
  (rdCall.fn = "getLatestMetrics" /\ rdResult.kind # "rejected") =>
    /\ time_series_data = {} => rdResult.kind = "undefined"
    /\ time_series_data # {} =>
         /\ rdResult.kind = "row"
         /\ DOMAIN rdResult.rows[1] = LatestMetricsColumns
         /\ \A r \in Newest :
              /\ \A c \in LatestMetricsColumns : rdResult.rows[1][c] = r[c]
              /\ (r.timestamp \in Times /\ r.id = ts_seq - 1) =>
                   \A c \in LatestMetricsColumns :
                     rdResult.rows[1][c] = tsHist[r.timestamp][1].values[c]

\* C30 witness: next to an older snapshot, a snapshot of status 'partial'
\* was inserted with a greater timestamp, and getLatestMetrics returned it.
C30_ReadAfterInsert ==
  /\ rdCall.fn = "getLatestMetrics"
  /\ rdResult.kind = "row"
  /\ \E r \in Newest :
       /\ r.id = ts_seq - 1 /\ r.collection_status = "partial"
       /\ rdResult.rows[1].tvl_usd = r.tvl_usd
       /\ \E q \in time_series_data : q.timestamp \in Times /\ q.timestamp < r.timestamp

\* --------------------------------------------------------- validator_metrics

VmMutable == {"active_validators", "estimated_apr"}

\* C29: validator_metrics never holds two rows with one timestamp; and a
\* successful insertValidatorMetrics call for a timestamp that is already
\* stored leaves every other row and every other column of that row as they
\* were, sets active_validators and estimated_apr to the values of the call,
\* and returns the id of the existing row.
C29_ValidatorUpsert ==
  /\ [](\A r, q \in validator_metrics : r.timestamp = q.timestamp => r = q)
  /\ [][(calls' = calls + 1 /\ vmLast'.kind = "row") =>
          \A r \in validator_metrics :
            r.timestamp = vmLast'.values.timestamp =>
              /\ vmLast'.id = r.id
              /\ vm_seq' > r.id + 1
              /\ \E u \in validator_metrics' :
                   /\ validator_metrics' = (validator_metrics \ {r}) \cup {u}
                   /\ \A c \in DOMAIN r \ VmMutable : u[c] = r[c]
                   /\ \A c \in VmMutable : u[c] = vmLast'.values[c]]_vars

\* C29 witness: the last call returned the id of a row that an earlier call
\* had inserted, and changed its active_validators.
C29_UpsertedExisting ==
  /\ vmLast.kind = "row"
  /\ vmLast.id < vm_seq - 1
  /\ \E r \in validator_metrics :
       /\ r.id = vmLast.id
       /\ r.active_validators = vmLast.values.active_validators
       /\ r.active_validators # r.total_validators

\* ------------------------------------------------------------ query executor

\* C24: when pool.query fails, query() does not return: it throws a
\* QueryError that carries the driver's message, the statement and the
\* params.
C24_WrappedQueryFailure ==
  (qCall.made /\ ~qCall.outcome.ok) =>
    /\ qSettled.kind = "thrown"
    /\ qSettled.value.name = "QueryError"
    /\ qSettled.value.message = qCall.outcome.message
    /\ qSettled.value.statement = qCall.text
    /\ qSettled.value.params = qCall.params

\* C27: query() warns exactly when a successful statement took more than
\* SlowQueryMs, the warning carries the first LeadingChars characters of the
\* statement, and with or without the warning the caller receives the
\* result of pool.query.
C27_SlowQueryReporting ==
  qCall.made =>
    /\ (\E i \in DOMAIN qLog : qLog[i].level = "warn")
         <=> (qCall.outcome.ok /\ qCall.duration > SlowQueryMs)
    /\ \A i \in DOMAIN qLog :
         qLog[i].level = "warn" =>
           /\ Len(qLog[i].text) = IF Len(qCall.text) < LeadingChars THEN Len(qCall.text) ELSE LeadingChars
           /\ \A k \in DOMAIN qLog[i].text : qLog[i].text[k] = qCall.text[k]
    /\ qCall.outcome.ok => qSettled = [kind |-> "returned", value |-> qCall.outcome]

\* C27 witness: a statement longer than LeadingChars characters succeeded
\* one millisecond above the threshold, was reported with its leading
\* characters, and the result was returned.
C27_SlowQueryWarned ==
  /\ qCall.made /\ qCall.outcome.ok
  /\ qCall.duration = SlowQueryMs + 1
  /\ Len(qCall.text) > LeadingChars
  /\ Len(qLog) = 1 /\ qLog[1].level = "warn" /\ Len(qLog[1].text) = LeadingChars
  /\ qSettled.kind = "returned"

\* ---------------------------------------------------------------- the process

\* C25: once the pool has emitted an error for an idle client, process.exit
\* was called by the pool's error handler, and a process that has exited
\* serves no further statement.
C25_IdleErrorIsFatal ==
  /\ [](idleErrors > 0 => proc = [state |-> "exited", code |-> -1, by |-> "idle-error"])
  /\ [][~Running => (served' = served /\ proc' = proc)]_vars

\* C25 witness: an idle client failed after the script's first statement was
\* served, while the script still had statements to run.
C25_IdleErrorMidScript ==
  /\ idleErrors = 1
  /\ served >= 1
  /\ mainPc \in {"initializeSchema", "healthCheck", "getDatabaseStats",
                  "insertTimeSeriesData", "getLatestMetrics", "cleanup"}
  /\ ~Running

\* C26: after SIGINT or SIGTERM the process exits only once pool.end() has
\* completed, and it does exit, also when closePool fails or when a second
\* signal arrives while the first close is under way.
C26_GracefulShutdown ==
  /\ []((signals # <<>> /\ ~Running) => poolEnd = "ended")
  /\ (signals # <<>>) ~> ~Running

\* C28: on every path on which main() of init-schema.js or test-connection.js
\* ends the process, without any signal or idle-client error, closePool()
\* has completed before the exit.
C28_NoPoolLeakOnExit ==
  (program \in Programs /\ signals = <<>> /\ idleErrors = 0 /\ ~Running)
    => poolEnd = "ended"

\* --------------------------------------------------------------- retry policy

\* C35: a retry() called with maxAttempts <= 0 never invokes the operation,
\* never invokes onRetry and never waits, and it settles only by rejecting
\* with the undefined lastError; it never returns.
C35_NoAttemptsAllowed ==
  (rPc # "idle" /\ rOpts.maxAttempts <= 0) =>
    /\ fnCalls = 0 /\ thrown = <<>>
    /\ hookLog = <<>> /\ waits = <<>>
    /\ rOutcome.kind # "resolved"
    /\ rPc = "done" => rOutcome = [kind |-> "rejected", value |-> Undefined]

\* C35 witness: a retry() with maxAttempts = 0 and an onRetry hook has
\* settled, rejected.
C35_RejectedWithoutAttempt ==
  /\ rPc = "done"
  /\ rOpts.maxAttempts = 0 /\ rOpts.onRetry
  /\ rOutcome.kind = "rejected"

\* ------------------------------------------------------ retention of anomalies

\* C33: every anomaly insertAnomaly has stored is still stored, with the
\* status and detection time of its insert, after any views, cleanups and
\* passing of time, and no open cleanup has marked it for deletion.
C33_RetentionNeverFires ==
  \A id \in AnomalyIds :
    anInserted[id] # <<>> =>
      /\ \E r \in anomalies :
           /\ r.id = id
           /\ r.status = anInserted[id][1].status
           /\ r.detected_at = anInserted[id][1].detected_at
      /\ \A d \in clDeleted.an : d.id # id

\* C33 witness: an anomaly inserted as resolved and viewed since is still
\* stored after a cleanup that ran more than the retention after its insert
\* has committed.
C33_OldResolvedKept ==
  /\ clPc = "done"
  /\ \E r \in anomalies :
       /\ r.status = "resolved"
       /\ r.view_count > 0
       /\ anInserted[r.id] # <<>>
       /\ r.detected_at < clNow - AnomalyRetentionDays

\* ------------------------------------------------------ probes and schema setup

\* C31: testConnection() and healthCheck() never reject: testConnection
\* returns true exactly when its query succeeded, healthCheck returns status
\* 'healthy' exactly when its query succeeded and otherwise status
\* 'unhealthy' with the message of the error.
C31_ProbesReportByValue ==
  /\ probe.fn = "testConnection" =>
       /\ probe.settled.kind = "returned"
       /\ probe.settled.value = probe.query.ok
  /\ probe.fn = "healthCheck" =>
       /\ probe.settled.kind = "returned"
       /\ probe.settled.value.status = IF probe.query.ok THEN "healthy" ELSE "unhealthy"
       /\ ~probe.query.ok => probe.settled.value.error = probe.query.message

\* C31 witness: after a testConnection() that returned true, the query of
\* healthCheck() failed, healthCheck() returned 'unhealthy' and the script
\* went on to its next test.
C31_UnhealthyReturned ==
  /\ probe.fn = "healthCheck"
  /\ ~probe.query.ok
  /\ probe.settled.kind = "returned" /\ probe.settled.value.status = "unhealthy"
  /\ mainPc = "getDatabaseStats"
  /\ Running

\* C32: when the query of initializeSchema() fails, initializeSchema()
\* rejects, and init-schema.js has ended the process with a non-zero code
\* without printing its success messages.
C32_SchemaFailureIsFatal ==
  (schemaRun.state # "none" /\ ~schemaRun.query) =>
    /\ schemaRun.state = "rejected"
    /\ proc.state = "exited" /\ proc.code # 0
    /\ ~reported

\* C32 witness: the connection test passed, the schema statement failed on
\* an open pool, and the process has exited with code 1.
C32_SchemaFailed ==
  /\ program = "init-schema"
  /\ schemaRun.state = "rejected"
  /\ probe.fn = "testConnection" /\ probe.settled.value = TRUE
  /\ poolEnd = "open"
  /\ proc = Exited(1, "catch")

\* C34: the step in which initializeSchema() succeeds leaves none of the rows
\* the five tables held: time_series_data holds exactly one row, a new one,
\* with collection_status 'initial', and the other four tables are empty.
C34_SchemaInitIsDestructive ==
  [][(mainPc = "initializeSchema" /\ mainPc' = "finally") =>
       /\ Cardinality(time_series_data') = 1
       /\ \A r \in time_series_data' :
            r.collection_status = "initial" /\ r \notin time_series_data
       /\ whale_wallets' = {} /\ twitter_sentiment' = {}
       /\ anomalies' = {} /\ validator_metrics' = {}]_vars

\* C34 witness: initializeSchema() has succeeded on a database in which all
\* five tables held rows, and only the new placeholder is stored.
C34_PopulatedTablesDropped ==
  /\ schemaRun.state = "resolved"
  /\ mainPc = "finally"
  /\ schemaRun.before.ts # {} /\ schemaRun.before.wh # {} /\ schemaRun.before.tw # {}
  /\ schemaRun.before.an # {} /\ schemaRun.before.vm # {}
  /\ Cardinality(time_series_data) = 1
  /\ whale_wallets = {} /\ twitter_sentiment = {} /\ anomalies = {} /\ validator_metrics = {}

====
